---- MODULE Spec2Model ----
(***************************************************************************)
(* Chisel release model: path conflict validation with 'prefer'            *)
(* (Release.validate, preferGraph), the standalone conflict resolver       *)
(* (ResolveConflict), slice selection (order, Select) and the per-path     *)
(* provider query (Selection.SelectPackage), the slicer's Report (Add,     *)
(* AddMutated) and the manifest written from it (generateManifest).        *)
(*                                                                         *)
(* Package names are the integers 1..MaxPkgs, compared as the Go code      *)
(* compares the package name strings ("pkg-1" < "pkg-2" < ...); 0 stands   *)
(* for the empty string.  Slice names are integers too, and a slice key    *)
(* "pkg_slice" is the pair <<pkg, slice>>.  A *Slice pointer is modelled   *)
(* by the slice record it points to (Package and Name identify it).        *)
(* Where Go ranges over a map, the operators return the set of results of  *)
(* all iteration orders.                                                   *)
(***************************************************************************)
EXTENDS Integers, Sequences, FiniteSets, TLC

VARIABLES
    release,         \* the Release as read from disk (Packages, Archives)
    phase,           \* "loaded" | "validated" | "resolved" | "selected" | "queried"
    err,             \* error returned by the last call (NoErr when nil)
    pathPriorities,  \* Release.pathPriorities: path -> (package -> rank)
    conflict,        \* the Conflict handed to the last ResolveConflict
    resolution,      \* ConflictResolution.Priority of the last ResolveConflict
    selection,       \* Selection.Slices of the last Select
    provider,        \* SelectPackage answers: path -> packages answering true
    request,         \* the slice keys handed to the last Select call
    report,          \* the slicer's Report (Root, Entries)
    call,            \* the last Report call and the calls made so far
    manifest,        \* the lines of the manifest written last
    walk,            \* validate's loop and the running call of preferGraph.visit
    disk,            \* the files under the target directory and the open writes
    installedPackages, \* sbomDB.installedPackages: the sections added so far
    overlap          \* the arguments and the result of the last hasConflict

vars == <<release, phase, err, pathPriorities, conflict, resolution, selection,
          provider, request, report, call, manifest, walk, disk,
          installedPackages, overlap>>

----------------------------------------------------------------------------
(* Bounds and input domains *)

MaxPkgs == 3
MaxKeys == 2
MaxCalls == 3
MaxSections == 2

NoPkg == 0
PkgNames == 1..MaxPkgs
SliceNames == {1, 2}
CfgPath == "/etc/cfg"
GlobDir == "/dir/**"
Paths == {CfgPath, GlobDir}

EmptyMap == [x \in {} |-> x]

----------------------------------------------------------------------------
(* Data model *)

\* PathInfo with kind copy (the bare path key).
CopyInfo(prefer) ==
    [Kind |-> "copy", Info |-> "", Mode |-> 0, Mutable |-> FALSE,
     Generate |-> "", Prefer |-> prefer]

\* PathInfo with kind text.
TextInfo(prefer) ==
    [Kind |-> "text", Info |-> "data", Mode |-> 420, Mutable |-> FALSE,
     Generate |-> "", Prefer |-> prefer]

\* PathInfo with kind glob (a path key with wildcards).
GlobInfo(prefer) ==
    [Kind |-> "glob", Info |-> "", Mode |-> 0, Mutable |-> FALSE,
     Generate |-> "", Prefer |-> prefer]

MkSlice(pkg, name, contents) ==
    [Package |-> pkg, Name |-> name, Essential |-> <<>>, Contents |-> contents]

NilSlice == MkSlice(NoPkg, 0, EmptyMap)

SameContent(pi, other) ==
    /\ pi.Kind = other.Kind
    /\ pi.Info = other.Info
    /\ pi.Mode = other.Mode
    /\ pi.Mutable = other.Mutable
    /\ pi.Generate = other.Generate

\* Faulty variant of the resolver's SameContent: Prefer is not compared.
SameContentPrefer_IgnorePrefer(pi, other) ==
    /\ pi.Kind = other.Kind
    /\ pi.Info = other.Info
    /\ pi.Mode = other.Mode
    /\ pi.Mutable = other.Mutable
    /\ pi.Generate = other.Generate

\* SameContent as defined next to the conflict resolver: Prefer is compared
\* too.  conflict.go is written against this definition (its test case
\* "Different prefer from same package" expects the same-package check to
\* reject two slices that differ only in Prefer).
SameContentPrefer(pi, other) ==
    /\ pi.Kind = other.Kind
    /\ pi.Info = other.Info
    /\ pi.Mode = other.Mode
    /\ pi.Mutable = other.Mutable
    /\ pi.Generate = other.Generate
    /\ pi.Prefer = other.Prefer

\* Slice.String(): the key of the slice.
SliceString(s) == <<s.Package, s.Name>>

\* Order of two slices by (Package, Name), as the error reports sort them.
SliceGreater(a, b) ==
    \/ a.Package > b.Package
    \/ a.Package = b.Package /\ a.Name > b.Name

NoErr == [kind |-> "nil", s1 |-> <<>>, s2 |-> <<>>, path |-> "", names |-> <<>>]

MkErr(kind, s1, s2, path, names) ==
    [kind |-> kind, s1 |-> s1, s2 |-> s2, path |-> path, names |-> names]

\* "slices %s and %s conflict on %s"
reportConflict(old, new, path) ==
    IF SliceGreater(old, new)
    THEN MkErr("conflict", SliceString(new), SliceString(old), path, <<>>)
    ELSE MkErr("conflict", SliceString(old), SliceString(new), path, <<>>)

----------------------------------------------------------------------------
(* preferGraph *)

NewGraph(path) == [path |-> path, head |-> NilSlice, visited |-> EmptyMap]

isLinear(g) ==
    /\ g.head # NilSlice
    /\ g.head.Contents[g.path].Prefer # NoPkg

next(g, pkg) == g.visited[pkg].Contents[g.path].Prefer

\* Slices of pkg that contain path: findPath returns any of them.
findPath(r, path, pkg) ==
    {r.Packages[pkg].Slices[n] : n \in
        {m \in DOMAIN r.Packages[pkg].Slices :
            path \in DOMAIN r.Packages[pkg].Slices[m].Contents}}

SeqMinIdx(seq) ==
    CHOOSE i \in 1..Len(seq) : \A j \in 1..Len(seq) :
        seq[i] < seq[j] \/ (seq[i] = seq[j] /\ i <= j)

RECURSIVE findCycleWalk(_, _, _, _)
findCycleWalk(path, visited, u, cycle) ==
    IF u = NoPkg THEN <<>>
    ELSE IF Len(cycle) > 0 /\ u = cycle[1] THEN cycle
    ELSE IF u \notin DOMAIN visited \/ Len(cycle) > Cardinality(DOMAIN visited)
         THEN <<>>
    ELSE findCycleWalk(path, visited, visited[u].Contents[path].Prefer,
                       Append(cycle, u))

\* The packages of the cycle through start, rotated to begin at the smallest;
\* <<>> stands for "internal error: expected a cycle".
findCycle(g, visited, start) ==
    LET cycle == findCycleWalk(g.path, visited, start, <<>>) IN
    IF cycle = <<>> THEN <<>>
    ELSE LET minIdx == SeqMinIdx(cycle) IN
         SubSeq(cycle, minIdx, Len(cycle)) \o SubSeq(cycle, 1, minIdx - 1)

\* "slices %s and %s conflict on path %s: path has 'prefer' but there is no
\* valid linear order"
NoLinearOrder(g, src) ==
    IF SliceGreater(src, g.head)
    THEN MkErr("nolinear", SliceString(g.head), SliceString(src), g.path, <<>>)
    ELSE MkErr("nolinear", SliceString(src), SliceString(g.head), g.path, <<>>)

VisitOut(e, g) == [err |-> e, g |-> g]

\* Faulty variant of the loop of visit: a package met again on the current
\* walk ends the walk like a package visited earlier, no cycle is reported.
RECURSIVE visitWalk_NoCycleCheck(_, _, _, _, _, _)
visitWalk_NoCycleCheck(r, g, src, tempVisited, prev, cur) ==
    IF cur \in DOMAIN tempVisited THEN
        {VisitOut(NoErr, [g EXCEPT !.head = src,
                                   !.visited = tempVisited @@ g.visited])}
    ELSE IF cur \in DOMAIN g.visited THEN
        IF cur # g.head.Package
        THEN {VisitOut(NoLinearOrder(g, src), g)}
        ELSE {VisitOut(NoErr, [g EXCEPT !.head = src,
                                        !.visited = tempVisited @@ g.visited])}
    ELSE
        LET found == IF cur = src.Package THEN {src} ELSE findPath(r, g.path, cur) IN
        IF found = {} THEN
            IF prev # NoPkg
            THEN {VisitOut(MkErr("invalidprefer", SliceString(tempVisited[prev]),
                                 <<>>, g.path, <<cur>>), g)}
            ELSE {VisitOut(MkErr("nopath", <<>>, <<>>, g.path, <<cur>>), g)}
        ELSE UNION {
            LET tv == (cur :> s) @@ tempVisited
                nxt == s.Contents[g.path].Prefer
            IN  IF nxt = NoPkg THEN
                    IF isLinear(g)
                    THEN {VisitOut(NoLinearOrder(g, src), g)}
                    ELSE {VisitOut(NoErr, [g EXCEPT !.head = src,
                                                    !.visited = tv @@ g.visited])}
                ELSE IF nxt \notin DOMAIN r.Packages
                THEN {VisitOut(MkErr("undefined", SliceString(s), <<>>, g.path,
                                     <<nxt>>), g)}
                ELSE visitWalk_NoCycleCheck(r, g, src, tv, cur, nxt)
            : s \in found}

\* The loop of visit: the walk along the 'prefer' relations from cur on.
RECURSIVE visitWalk(_, _, _, _, _, _)
visitWalk(r, g, src, tempVisited, prev, cur) ==
    IF cur \in DOMAIN tempVisited THEN
        LET cycle == findCycle(g, tempVisited, cur) IN
        IF cycle = <<>>
        THEN {VisitOut(MkErr("internal", <<>>, <<>>, g.path, <<>>), g)}
        ELSE {VisitOut(MkErr("cycle", SliceString(tempVisited[cycle[1]]), <<>>,
                             g.path, cycle), g)}
    ELSE IF cur \in DOMAIN g.visited THEN
        IF cur # g.head.Package
        THEN {VisitOut(NoLinearOrder(g, src), g)}
        ELSE {VisitOut(NoErr, [g EXCEPT !.head = src,
                                        !.visited = tempVisited @@ g.visited])}
    ELSE
        LET found == IF cur = src.Package THEN {src} ELSE findPath(r, g.path, cur) IN
        IF found = {} THEN
            IF prev # NoPkg
            THEN {VisitOut(MkErr("invalidprefer", SliceString(tempVisited[prev]),
                                 <<>>, g.path, <<cur>>), g)}
            ELSE {VisitOut(MkErr("nopath", <<>>, <<>>, g.path, <<cur>>), g)}
        ELSE UNION {
            LET tv == (cur :> s) @@ tempVisited
                nxt == s.Contents[g.path].Prefer
            IN  IF nxt = NoPkg THEN
                    IF isLinear(g)
                    THEN {VisitOut(NoLinearOrder(g, src), g)}
                    ELSE {VisitOut(NoErr, [g EXCEPT !.head = src,
                                                    !.visited = tv @@ g.visited])}
                ELSE IF nxt \notin DOMAIN r.Packages
                THEN {VisitOut(MkErr("undefined", SliceString(s), <<>>, g.path,
                                     <<nxt>>), g)}
                ELSE visitWalk(r, g, src, tv, cur, nxt)
            : s \in found}

\* visit iterates over the 'prefer' relations starting from src: the set of
\* possible results [err, g].
visit(r, g, src) == visitWalk(r, g, src, EmptyMap, NoPkg, src.Package)

\* The position in validate's loop over the slices and in the call of visit
\* it makes: pc is "idle" before the loop, "visit" inside the loop of visit,
\* "findCycle" inside the loop of findCycle and "returned" between two
\* iterations of validate's loop.  seen holds the slices iterated so far,
\* visits the packages in the order they were put in tempVisited.
NoWalk ==
    [pc |-> "idle", graphs |-> EmptyMap, seen |-> {}, path |-> "",
     src |-> NilSlice, tempVisited |-> EmptyMap, prev |-> NoPkg, cur |-> NoPkg,
     u |-> NoPkg, cycle |-> <<>>, visits |-> <<>>, out |-> NoErr]

\* return e
visitReturn(w, e) == [w EXCEPT !.pc = "returned", !.out = e]

\* The end of visit: update the head, mark the nodes and return nil.
visitCommit(w) ==
    LET g == w.graphs[w.path] IN
    [w EXCEPT !.pc = "returned", !.out = NoErr,
              !.graphs = (w.path :> [g EXCEPT !.head = w.src,
                                              !.visited = w.tempVisited @@ g.visited])
                         @@ w.graphs]

\* The start of visit(src) on the graph of path.
visitEnter(w, src, path) ==
    [w EXCEPT !.pc = "visit", !.path = path, !.src = src,
              !.tempVisited = EmptyMap, !.prev = NoPkg, !.cur = src.Package,
              !.u = NoPkg, !.cycle = <<>>, !.visits = <<>>]

\* Faulty variant of visitStep: the check of tempVisited is missing.
visitStep_NoCycleCheck(r, w) ==
    LET g == w.graphs[w.path] IN
    IF w.cur \in DOMAIN g.visited THEN
        IF w.cur # g.head.Package
        THEN {visitReturn(w, NoLinearOrder(g, w.src))}
        ELSE {visitCommit(w)}
    ELSE
        LET found == IF w.cur = w.src.Package THEN {w.src}
                     ELSE findPath(r, w.path, w.cur) IN
        IF found = {} THEN
            IF w.prev # NoPkg
            THEN {visitReturn(w, MkErr("invalidprefer",
                                       SliceString(w.tempVisited[w.prev]), <<>>,
                                       w.path, <<w.cur>>))}
            ELSE {visitReturn(w, MkErr("nopath", <<>>, <<>>, w.path, <<w.cur>>))}
        ELSE {LET w1 == [w EXCEPT !.tempVisited = (w.cur :> s) @@ w.tempVisited,
                                  !.visits = Append(w.visits, w.cur)]
                  nxt == s.Contents[w.path].Prefer
              IN  IF nxt = NoPkg THEN
                      IF isLinear(g)
                      THEN visitReturn(w1, NoLinearOrder(g, w.src))
                      ELSE visitCommit(w1)
                  ELSE IF nxt \notin DOMAIN r.Packages
                  THEN visitReturn(w1, MkErr("undefined", SliceString(s), <<>>,
                                             w.path, <<nxt>>))
                  ELSE [w1 EXCEPT !.prev = w.cur, !.cur = nxt]
              : s \in found}

\* One iteration of the loop of visit: the set of the positions after it
\* (findPath returns any slice of the package that has the path).
visitStep(r, w) ==
    LET g == w.graphs[w.path] IN
    IF w.cur \in DOMAIN w.tempVisited THEN
        {[w EXCEPT !.pc = "findCycle", !.u = w.cur, !.cycle = <<>>]}
    ELSE IF w.cur \in DOMAIN g.visited THEN
        IF w.cur # g.head.Package
        THEN {visitReturn(w, NoLinearOrder(g, w.src))}
        ELSE {visitCommit(w)}
    ELSE
        LET found == IF w.cur = w.src.Package THEN {w.src}
                     ELSE findPath(r, w.path, w.cur) IN
        IF found = {} THEN
            IF w.prev # NoPkg
            THEN {visitReturn(w, MkErr("invalidprefer",
                                       SliceString(w.tempVisited[w.prev]), <<>>,
                                       w.path, <<w.cur>>))}
            ELSE {visitReturn(w, MkErr("nopath", <<>>, <<>>, w.path, <<w.cur>>))}
        ELSE {LET w1 == [w EXCEPT !.tempVisited = (w.cur :> s) @@ w.tempVisited,
                                  !.visits = Append(w.visits, w.cur)]
                  nxt == s.Contents[w.path].Prefer
              IN  IF nxt = NoPkg THEN
                      IF isLinear(g)
                      THEN visitReturn(w1, NoLinearOrder(g, w.src))
                      ELSE visitCommit(w1)
                  ELSE IF nxt \notin DOMAIN r.Packages
                  THEN visitReturn(w1, MkErr("undefined", SliceString(s), <<>>,
                                             w.path, <<nxt>>))
                  ELSE [w1 EXCEPT !.prev = w.cur, !.cur = nxt]
              : s \in found}

\* One iteration of the loop of findCycle, with the step to the next u; when
\* the loop breaks, the cycle is rotated to begin at its smallest package and
\* visit returns the error naming it.  Reading visited[u] for a package that
\* is not in visited dereferences nil.
findCycleStep(w) ==
    IF w.u = NoPkg THEN
        visitReturn(w, MkErr("internal", <<>>, <<>>, w.path, <<>>))
    ELSE IF Len(w.cycle) > 0 /\ w.u = w.cycle[1] THEN
        LET minIdx == SeqMinIdx(w.cycle)
            cycle == SubSeq(w.cycle, minIdx, Len(w.cycle)) \o
                     SubSeq(w.cycle, 1, minIdx - 1)
        IN  visitReturn([w EXCEPT !.cycle = cycle],
                        MkErr("cycle", SliceString(w.tempVisited[cycle[1]]), <<>>,
                              w.path, cycle))
    ELSE IF w.u \notin DOMAIN w.tempVisited THEN
        visitReturn([w EXCEPT !.cycle = Append(w.cycle, w.u)],
                    MkErr("panic", <<>>, <<>>, w.path, <<w.u>>))
    ELSE [w EXCEPT !.cycle = Append(w.cycle, w.u),
                   !.u = w.tempVisited[w.u].Contents[w.path].Prefer]

----------------------------------------------------------------------------
(* order and tarjanSort *)

TupleLess(a, b) == a[1] < b[1] \/ (a[1] = b[1] /\ a[2] < b[2])

RECURSIVE SortedKeys(_)
SortedKeys(S) ==
    IF S = {} THEN <<>>
    ELSE LET m == CHOOSE x \in S : \A y \in S : x = y \/ TupleLess(x, y)
         IN  <<m>> \o SortedKeys(S \ {m})

SeqRange(seq) == {seq[i] : i \in 1..Len(seq)}

RECURSIVE ReachFrom(_, _, _)
ReachFrom(successors, frontier, acc) ==
    LET new == (UNION {SeqRange(successors[u]) : u \in frontier}) \ acc IN
    IF new = {} THEN acc
    ELSE ReachFrom(successors, new \cap DOMAIN successors, acc \cup new)

\* Nodes reachable from u by one or more edges.
Reach(successors, u) == ReachFrom(successors, {u}, {})

Component(successors, u) ==
    {u} \cup {v \in Reach(successors, u) \cap DOMAIN successors :
                 u \in Reach(successors, v)}

RECURSIVE tarjanEmit(_, _, _, _)
tarjanEmit(successors, comps, done, out) ==
    IF comps = {} THEN out
    ELSE LET ready == {c \in comps :
                         \A u \in c : SeqRange(successors[u]) \subseteq (c \cup done)}
             c == CHOOSE x \in ready : \A y \in ready :
                      x = y \/ TupleLess(SortedKeys(x)[1], SortedKeys(y)[1])
         IN  tarjanEmit(successors, comps \ {c}, done \cup c,
                        Append(out, SortedKeys(c)))

\* The strongly connected components of the graph, every component after
\* the components it has edges to.
tarjanSort(successors) ==
    LET nodes == DOMAIN successors \cup
                 UNION {SeqRange(successors[u]) : u \in DOMAIN successors}
        total == [u \in nodes |->
                     IF u \in DOMAIN successors THEN successors[u] ELSE <<>>]
    IN  tarjanEmit(total, {Component(total, u) : u \in nodes}, {}, <<>>)

KeyDefined(pkgs, key) ==
    /\ key[1] \in DOMAIN pkgs
    /\ key[2] \in DOMAIN pkgs[key[1]].Slices

OrderOut(e, keys) == [err |-> e, order |-> keys]

\* Faulty variant of orderCollect: the essentials of a slice are recorded as
\* its successors but never appended to pending, so their own essentials
\* are not collected.
RECURSIVE orderCollect_DirectOnly(_, _, _, _, _)
orderCollect_DirectOnly(pkgs, pending, i, seen, successors) ==
    IF i > Len(pending) THEN [err |-> NoErr, successors |-> successors]
    ELSE LET key == pending[i] IN
         IF key \in seen
         THEN orderCollect_DirectOnly(pkgs, pending, i + 1, seen, successors)
         ELSE LET slice == pkgs[key[1]].Slices[key[2]]
                  bad == {j \in 1..Len(slice.Essential) :
                             ~KeyDefined(pkgs, slice.Essential[j])}
              IN  IF bad # {}
                  THEN LET j == CHOOSE x \in bad : \A y \in bad : x <= y IN
                       [err |-> MkErr("missing", key, slice.Essential[j], "", <<>>),
                        successors |-> successors]
                  ELSE orderCollect_DirectOnly(pkgs, pending, i + 1,
                                               seen \cup {key},
                                               (key :> slice.Essential) @@ successors)

RECURSIVE orderCollect(_, _, _, _, _)
orderCollect(pkgs, pending, i, seen, successors) ==
    IF i > Len(pending) THEN [err |-> NoErr, successors |-> successors]
    ELSE LET key == pending[i] IN
         IF key \in seen
         THEN orderCollect(pkgs, pending, i + 1, seen, successors)
         ELSE LET slice == pkgs[key[1]].Slices[key[2]]
                  bad == {j \in 1..Len(slice.Essential) :
                             ~KeyDefined(pkgs, slice.Essential[j])}
              IN  IF bad # {}
                  THEN LET j == CHOOSE x \in bad : \A y \in bad : x <= y IN
                       [err |-> MkErr("missing", key, slice.Essential[j], "", <<>>),
                        successors |-> successors]
                  ELSE orderCollect(pkgs, pending \o slice.Essential, i + 1,
                                    seen \cup {key},
                                    (key :> slice.Essential) @@ successors)

\* The loop of order over the components tarjanSort returned.
orderSorted(comps) ==
    LET loops == {i \in 1..Len(comps) : Len(comps[i]) > 1} IN
    IF loops # {}
    THEN LET i == CHOOSE x \in loops : \A y \in loops : x <= y IN
         OrderOut(MkErr("essentialloop", <<>>, <<>>, "", comps[i]), <<>>)
    ELSE OrderOut(NoErr, [i \in 1..Len(comps) |-> comps[i][1]])

\* order once the relevant slices are collected in col.
orderCollected(col) ==
    IF col.err # NoErr THEN OrderOut(col.err, <<>>)
    ELSE orderSorted(tarjanSort(col.successors))

\* Faulty variant of order: an undefined package is reported with the
\* message for an undefined slice.
order_SliceMessageOnly(pkgs, keys) ==
    LET bad == {i \in 1..Len(keys) : ~KeyDefined(pkgs, keys[i])} IN
    IF bad # {} THEN
        LET i == CHOOSE x \in bad : \A y \in bad : x <= y IN
        OrderOut(MkErr("slicenotfound", keys[i], <<>>, "", <<>>), <<>>)
    ELSE orderCollected(orderCollect(pkgs, keys, 1, {}, EmptyMap))

order(pkgs, keys) ==
    LET bad == {i \in 1..Len(keys) : ~KeyDefined(pkgs, keys[i])} IN
    IF bad # {} THEN
        LET i == CHOOSE x \in bad : \A y \in bad : x <= y IN
        IF keys[i][1] \notin DOMAIN pkgs
        THEN OrderOut(MkErr("pkgnotfound", keys[i], <<>>, "", <<>>), <<>>)
        ELSE OrderOut(MkErr("slicenotfound", keys[i], <<>>, "", <<>>), <<>>)
    ELSE orderCollected(orderCollect(pkgs, keys, 1, {}, EmptyMap))

----------------------------------------------------------------------------
(* hasConflict *)

\* A path is the sequence of its characters here.

\* strings.Split(p, "/"): the pieces of p between the slashes, piece the one
\* collected since the last slash.
RECURSIVE SplitFrom(_, _, _)
SplitFrom(p, i, piece) ==
    IF i > Len(p) THEN <<piece>>
    ELSE IF p[i] = "/" THEN <<piece>> \o SplitFrom(p, i + 1, <<>>)
    ELSE SplitFrom(p, i + 1, Append(piece, p[i]))

Split(p) == SplitFrom(p, 1, <<>>)

\* strings.Index(a, "**"), counting from 1: 0 when "**" is not in a.
Index(a) ==
    LET at == {i \in 1..(Len(a) - 1) : a[i] = "*" /\ a[i + 1] = "*"} IN
    IF at = {} THEN 0 ELSE CHOOSE i \in at : \A j \in at : i <= j

\* strdist.GlobPath on two segments: whether some name is matched by both,
\* '?' standing for one character and '*' or '**' for any run of them.
RECURSIVE GlobMatch(_, _)
GlobMatch(a, b) ==
    IF a = <<>> THEN \A i \in 1..Len(b) : b[i] = "*"
    ELSE IF b = <<>> THEN \A i \in 1..Len(a) : a[i] = "*"
    ELSE IF a[1] = "*" THEN GlobMatch(Tail(a), b) \/ GlobMatch(a, Tail(b))
    ELSE IF b[1] = "*" THEN GlobMatch(a, Tail(b)) \/ GlobMatch(Tail(a), b)
    ELSE (a[1] = "?" \/ b[1] = "?" \/ a[1] = b[1]) /\ GlobMatch(Tail(a), Tail(b))

\* Faulty variant of hasConflict: directories are compared for equality only.
hasConflict_EqualOnly(p, q) ==
    LET ps == Tail(Split(p))
        qs == Tail(Split(q))
    IN  IF Len(ps) = 0 \/ Len(qs) = 0 THEN <<>>
        ELSE IF Len(ps) = 1 \/ Len(qs) = 1 THEN
            LET i == Index(ps[1])
                j == Index(qs[1])
                a == IF i # 0 THEN SubSeq(ps[1], 1, i - 1) \o <<"*", "*">> ELSE ps[1]
                b == IF j # 0 THEN SubSeq(qs[1], 1, j - 1) \o <<"*", "*">> ELSE qs[1]
                wild == i # 0 \/ j # 0
            IN  IF ~wild THEN <<>>
                ELSE IF a = b THEN <<"/">> \o a
                ELSE <<>>
        ELSE IF ps[1] = qs[1] THEN <<"/">> \o ps[1]
        ELSE <<>>

\* hasConflict: the conflicting prefix, empty when there is none.
hasConflict(p, q) ==
    LET ps == Tail(Split(p))
        qs == Tail(Split(q))
    IN  IF Len(ps) = 0 \/ Len(qs) = 0 THEN <<>>
        ELSE IF Len(ps) = 1 \/ Len(qs) = 1 THEN
            LET i == Index(ps[1])
                j == Index(qs[1])
                a == IF i # 0 THEN SubSeq(ps[1], 1, i - 1) \o <<"*", "*">> ELSE ps[1]
                b == IF j # 0 THEN SubSeq(qs[1], 1, j - 1) \o <<"*", "*">> ELSE qs[1]
                wild == i # 0 \/ j # 0
            IN  IF ~wild THEN <<>>
                ELSE IF a = b \/ GlobMatch(a, b) THEN <<"/">> \o a
                ELSE <<>>
        ELSE IF ps[1] = qs[1] THEN <<"/">> \o ps[1]
        ELSE IF GlobMatch(ps[1], qs[1]) THEN <<"/">> \o ps[1]
        ELSE <<>>

----------------------------------------------------------------------------
(* Release.validate *)

\* strdist.GlobPath on the path keys used here: whether the two patterns can
\* match a common path.
GlobPath(a, b) ==
    \/ a = b
    \/ {a, b} = {"/dir/**", "/dir/file"}

PathOrd(p) ==
    CASE p = "/dir/**" -> 1
      [] p = "/dir/file" -> 2
      [] OTHER -> 3

ValState(keys, globs, graphs, e) ==
    [keys |-> keys, globs |-> globs, graphs |-> graphs, err |-> e]

\* The body of the loop over new.Contents for one (newPath, newInfo).
validateContent(r, st, new, newPath) ==
    LET newInfo == new.Contents[newPath] IN
    IF newPath \in DOMAIN st.graphs THEN
        LET g == st.graphs[newPath] IN
        IF new.Package \in DOMAIN g.visited THEN
            LET s == g.visited[new.Package]
                sInfo == s.Contents[newPath]
            IN  IF ~SameContent(newInfo, sInfo) \/ newInfo.Prefer # sInfo.Prefer
                THEN {[st EXCEPT !.err = reportConflict(s, new, newPath)]}
                ELSE {st}
        ELSE IF /\ newInfo.Prefer # NoPkg
                /\ Cardinality(DOMAIN g.visited) > 1
                /\ ~isLinear(g)
        THEN {[st EXCEPT !.err = reportConflict(g.head, new, newPath)]}
        ELSE IF /\ newInfo.Prefer = NoPkg
                /\ LET headInfo == g.head.Contents[newPath] IN
                   \/ headInfo.Prefer # NoPkg
                   \/ ~SameContent(newInfo, headInfo)
                   \/ /\ newInfo.Kind \in {"copy", "glob"}
                      /\ new.Package # g.head.Package
        THEN {[st EXCEPT !.err = reportConflict(g.head, new, newPath)]}
        ELSE {[st EXCEPT !.graphs = (newPath :> o.g) @@ st.graphs, !.err = o.err] :
                 o \in visit(r, g, new)}
    ELSE
        LET globs == IF newInfo.Kind \in {"generate", "glob"}
                     THEN (newPath :> new) @@ st.globs ELSE st.globs
        IN  {[st EXCEPT !.globs = globs,
                        !.graphs = (newPath :> o.g) @@ st.graphs,
                        !.err = o.err] :
                 o \in visit(r, NewGraph(newPath), new)}

\* The body of validate's loop over new.Contents for (newPath, newInfo) up to
\* the call of visit: the walk returns with the conflict found, goes on to
\* the next content, or enters visit.
validateStep(w, new, newPath) ==
    LET newInfo == new.Contents[newPath] IN
    IF newPath \in DOMAIN w.graphs THEN
        LET g == w.graphs[newPath] IN
        IF new.Package \in DOMAIN g.visited THEN
            LET s == g.visited[new.Package]
                sInfo == s.Contents[newPath]
            IN  IF ~SameContent(newInfo, sInfo) \/ newInfo.Prefer # sInfo.Prefer
                THEN visitReturn(w, reportConflict(s, new, newPath))
                ELSE visitReturn(w, NoErr)
        ELSE IF /\ newInfo.Prefer # NoPkg
                /\ Cardinality(DOMAIN g.visited) > 1
                /\ ~isLinear(g)
        THEN visitReturn(w, reportConflict(g.head, new, newPath))
        ELSE IF /\ newInfo.Prefer = NoPkg
                /\ LET headInfo == g.head.Contents[newPath] IN
                   \/ headInfo.Prefer # NoPkg
                   \/ ~SameContent(newInfo, headInfo)
                   \/ /\ newInfo.Kind \in {"copy", "glob"}
                      /\ new.Package # g.head.Package
        THEN visitReturn(w, reportConflict(g.head, new, newPath))
        ELSE visitEnter(w, new, newPath)
    ELSE visitEnter([w EXCEPT !.graphs = (newPath :> NewGraph(newPath)) @@ w.graphs],
                    new, newPath)

RECURSIVE validateContents(_, _, _, _)
validateContents(r, st, new, paths) ==
    IF st.err # NoErr \/ paths = {} THEN {st}
    ELSE UNION {UNION {validateContents(r, st2, new, paths \ {newPath}) :
                          st2 \in validateContent(r, st, new, newPath)} :
                   newPath \in paths}

RECURSIVE validateSlices(_, _, _, _)
validateSlices(r, st, pkg, names) ==
    IF st.err # NoErr \/ names = {} THEN {st}
    ELSE UNION {
            LET new == pkg.Slices[n]
                st1 == [st EXCEPT !.keys = Append(st.keys, <<pkg.Name, new.Name>>)]
            IN  UNION {validateSlices(r, st2, pkg, names \ {n}) :
                          st2 \in validateContents(r, st1, new, DOMAIN new.Contents)}
            : n \in names}

RECURSIVE SortedInts(_)
SortedInts(S) ==
    IF S = {} THEN <<>>
    ELSE LET m == CHOOSE x \in S : \A y \in S : x <= y
         IN  <<m>> \o SortedInts(S \ {m})

RECURSIVE validatePackages(_, _, _, _)
validatePackages(r, st, pkgNames, i) ==
    IF st.err # NoErr \/ i > Len(pkgNames) THEN {st}
    ELSE LET pkg == r.Packages[pkgNames[i]] IN
         UNION {validatePackages(r, st2, pkgNames, i + 1) :
                   st2 \in validateSlices(r, st, pkg, DOMAIN pkg.Slices)}

\* Faulty variant of chainRanks: the counter is not advanced.
RECURSIVE chainRanks_NoIncrement(_, _, _, _)
chainRanks_NoIncrement(g, cur, counter, ranks) ==
    IF cur = NoPkg \/ cur \notin DOMAIN g.visited \/ cur \in DOMAIN ranks
    THEN ranks
    ELSE chainRanks_NoIncrement(g, next(g, cur), counter,
                                (cur :> (counter + 1)) @@ ranks)

\* The ranks given along the chain from cur on: 1 for the head, 2 for the
\* package it prefers, and so on.
RECURSIVE chainRanks(_, _, _, _)
chainRanks(g, cur, counter, ranks) ==
    IF cur = NoPkg \/ cur \notin DOMAIN g.visited \/ cur \in DOMAIN ranks
    THEN ranks
    ELSE chainRanks(g, next(g, cur), counter + 1, (cur :> (counter + 1)) @@ ranks)

\* Faulty variant of priorities: graphs that are not linear are ranked too.
priorities_AllGraphs(graphs) ==
    [path \in DOMAIN graphs |->
        chainRanks(graphs[path], graphs[path].head.Package, 0, EmptyMap)]

\* r.pathPriorities as filled from the graphs.
priorities(graphs) ==
    [path \in {p \in DOMAIN graphs : isLinear(graphs[p])} |->
        chainRanks(graphs[path], graphs[path].head.Package, 0, EmptyMap)]

\* "slices %s and %s conflict on %s and %s"
globConflict(old, new, oldPath, newPath) ==
    IF \/ old.Package > new.Package
       \/ old.Package = new.Package /\ old.Name > new.Name
       \/ old.Package = new.Package /\ old.Name = new.Name
            /\ PathOrd(oldPath) > PathOrd(newPath)
    THEN MkErr("globconflict", SliceString(new), SliceString(old), newPath, <<oldPath>>)
    ELSE MkErr("globconflict", SliceString(old), SliceString(new), oldPath, <<newPath>>)

\* The errors the check for glob and generate conflicts can return.
globErrors(globs, graphs) ==
    UNION {UNION {
        LET old == globs[oldPath]
            oldInfo == old.Contents[oldPath]
            g == graphs[newPath]
        IN  IF oldPath = newPath \/ ~GlobPath(newPath, oldPath) THEN {}
            ELSE {globConflict(old, g.visited[p], oldPath, newPath) :
                    p \in {q \in DOMAIN g.visited :
                        ~ (/\ oldInfo.Kind = "glob"
                           /\ g.visited[q].Contents[newPath].Kind \in {"glob", "copy"}
                           /\ g.visited[q].Package = old.Package)}}
        : newPath \in DOMAIN graphs} : oldPath \in DOMAIN globs}

\* a < b for two strings held as their bytes, as Go compares strings: the
\* first byte that differs decides, a proper prefix comes first.
RECURSIVE LexLessFrom(_, _, _)
LexLessFrom(a, b, i) ==
    IF i > Len(b) THEN FALSE
    ELSE IF i > Len(a) THEN TRUE
    ELSE IF a[i] # b[i] THEN a[i] < b[i]
    ELSE LexLessFrom(a, b, i + 1)

LexLess(a, b) == LexLessFrom(a, b, 1)

\* The errors the archive checks can return: two archives of one priority,
\* the smaller name first, whichever pair is met first when ranging over
\* r.Archives; only when there is none, a package pinned to an archive that
\* is not defined.
archiveErrors(r) ==
    LET clashes == {<<x, y>> \in (DOMAIN r.Archives) \X (DOMAIN r.Archives) :
                       /\ x # y
                       /\ ~LexLess(r.Archives[y].Name, r.Archives[x].Name)
                       /\ r.Archives[x].Priority = r.Archives[y].Priority}
    IN  IF clashes # {}
        THEN {MkErr("archivepriority", <<>>, <<>>, "",
                    <<r.Archives[c[1]].Name, r.Archives[c[2]].Name>>) : c \in clashes}
        ELSE {MkErr("undefinedarchive", <<>>, <<>>, "", <<p>>) :
                p \in {q \in DOMAIN r.Packages :
                    /\ r.Packages[q].Archive # <<>>
                    /\ r.Packages[q].Archive \notin DOMAIN r.Archives}}

ValOut(e, prios) == [err |-> e, pathPriorities |-> prios]

\* Release.validate: the set of its possible results.
validate(r) ==
    UNION {
        IF st.err # NoErr THEN {ValOut(st.err, EmptyMap)}
        ELSE LET prios == priorities(st.graphs)
                 gerrs == globErrors(st.globs, st.graphs)
             IN  IF gerrs # {} THEN {ValOut(e, prios) : e \in gerrs}
                 ELSE LET ord == order(r.Packages, st.keys) IN
                      IF ord.err # NoErr THEN {ValOut(ord.err, prios)}
                      ELSE IF archiveErrors(r) # {}
                      THEN {ValOut(e, prios) : e \in archiveErrors(r)}
                      ELSE {ValOut(NoErr, prios)}
        : st \in validatePackages(r, ValState(<<>>, EmptyMap, EmptyMap, NoErr),
                                  SortedInts(DOMAIN r.Packages), 1)}

----------------------------------------------------------------------------
(* Select and SelectPackage *)

SliceOf(r, key) == r.Packages[key[1]].Slices[key[2]]

SelOut(e, slices) == [err |-> e, Slices |-> slices]

\* Select once order has returned ord: the set of its possible results.
\* The error names the first selected slice with an invalid "generate" and
\* whichever of its paths with one is met first when ranging over its
\* contents.
selectOrdered(r, ord) ==
    IF ord.err # NoErr THEN {SelOut(ord.err, <<>>)}
    ELSE LET slices == [i \in 1..Len(ord.order) |-> SliceOf(r, ord.order[i])]
             invalid(i) == {p \in DOMAIN slices[i].Contents :
                               slices[i].Contents[p].Generate \notin {"", "manifest"}}
             bad == {i \in 1..Len(slices) : invalid(i) # {}}
         IN  IF bad # {}
             THEN LET first == CHOOSE i \in bad : \A j \in bad : i <= j IN
                  {SelOut(MkErr("invalidgenerate", SliceString(slices[first]), <<>>,
                                p, <<>>), <<>>) : p \in invalid(first)}
             ELSE {SelOut(NoErr, slices)}

Select(r, keys) == selectOrdered(r, order(r.Packages, keys))

\* Faulty variant of SelectPackage: the loop over the selected slices is
\* missing, every ranked package is chosen.
SelectPackage_NoLoop(prios, slices, path, pkg) ==
    IF path \notin DOMAIN prios THEN TRUE
    ELSE pkg \in DOMAIN prios[path]

\* Faulty variant of SelectPackage: the comparison is reversed, the lowest
\* priority of the selection wins.
SelectPackage_Reversed(prios, slices, path, pkg) ==
    IF path \notin DOMAIN prios THEN TRUE
    ELSE LET priorities_ == prios[path] IN
         IF pkg \notin DOMAIN priorities_ THEN FALSE
         ELSE ~ \E i \in 1..Len(slices) :
                   /\ slices[i].Package \in DOMAIN priorities_
                   /\ priorities_[slices[i].Package] < priorities_[pkg]

\* SelectPackage returns true if path should be extracted from pkg.
SelectPackage(prios, slices, path, pkg) ==
    IF path \notin DOMAIN prios THEN TRUE
    ELSE LET priorities_ == prios[path] IN
         IF pkg \notin DOMAIN priorities_ THEN FALSE
         ELSE ~ \E i \in 1..Len(slices) :
                   /\ slices[i].Package \in DOMAIN priorities_
                   /\ priorities_[slices[i].Package] > priorities_[pkg]

----------------------------------------------------------------------------
(* ResolveConflict *)

\* The Conflict for path: the PathInfo of every slice of r that declares it,
\* by slice key.
ConflictOf(r, path) ==
    LET keys == {k \in (DOMAIN r.Packages) \X SliceNames :
                    /\ k[2] \in DOMAIN r.Packages[k[1]].Slices
                    /\ path \in DOMAIN r.Packages[k[1]].Slices[k[2]].Contents}
    IN  [Path |-> path,
         PathInfos |-> [k \in keys |-> r.Packages[k[1]].Slices[k[2]].Contents[path]]]

SamePkgOut(e, pkgSlice) == [err |-> e, pkgSlice |-> pkgSlice]

RECURSIVE samePkgLoop(_, _, _)
samePkgLoop(c, pkgSlice, rest) ==
    IF rest = {} THEN {SamePkgOut(NoErr, pkgSlice)}
    ELSE UNION {
        LET newInfo == c.PathInfos[newSlice]
            pkg == newSlice[1]
        IN  IF pkg \notin DOMAIN pkgSlice
            THEN samePkgLoop(c, (pkg :> newSlice) @@ pkgSlice, rest \ {newSlice})
            ELSE LET oldSlice == pkgSlice[pkg]
                     oldInfo == c.PathInfos[oldSlice]
                 IN  IF ~SameContentPrefer(newInfo, oldInfo)
                     THEN IF TupleLess(newSlice, oldSlice)
                          THEN {SamePkgOut(MkErr("conflict", newSlice, oldSlice,
                                                 c.Path, <<>>), pkgSlice)}
                          ELSE {SamePkgOut(MkErr("conflict", oldSlice, newSlice,
                                                 c.Path, <<>>), pkgSlice)}
                     ELSE IF TupleLess(newSlice, oldSlice)
                          THEN samePkgLoop(c, (pkg :> newSlice) @@ pkgSlice,
                                           rest \ {newSlice})
                          ELSE samePkgLoop(c, pkgSlice, rest \ {newSlice})
        : newSlice \in rest}

RECURSIVE MergeMaps(_, _)
MergeMaps(per, pkgs) ==
    IF pkgs = {} THEN {EmptyMap}
    ELSE LET p == CHOOSE x \in pkgs : TRUE IN
         {o.pkgSlice @@ m : o \in {x \in per[p] : x.err = NoErr},
                            m \in MergeMaps(per, pkgs \ {p})}

\* checkSamePkgConflict: the possible results [err, pkgSlice].  The loop over
\* c.PathInfos touches only the pkgSlice entry of the slice's own package, so
\* the iteration orders are taken package by package: the call fails with
\* an error some package's slices produce, or else records every package.
checkSamePkgConflict(c) ==
    LET pkgs == {k[1] : k \in DOMAIN c.PathInfos}
        per == [p \in pkgs |->
                   samePkgLoop(c, EmptyMap, {k \in DOMAIN c.PathInfos : k[1] = p})]
    IN  {SamePkgOut(o.err, EmptyMap) :
            o \in UNION {{x \in per[p] : x.err # NoErr} : p \in pkgs}}
        \cup {SamePkgOut(NoErr, m) : m \in MergeMaps(per, pkgs)}

\* c.PathInfos[c.pkgSlice[pkg]]
pathInfo(c, pkgSlice, pkg) == c.PathInfos[pkgSlice[pkg]]

\* The graph nodes are the package names, written <<pkg, 0>> for tarjanSort.
checkCycles(c, pkgSlice) ==
    LET loops == {pkg \in DOMAIN pkgSlice : pathInfo(c, pkgSlice, pkg).Prefer = pkg}
        successors == [n \in {<<pkg, 0>> : pkg \in DOMAIN pkgSlice} |->
                          IF pathInfo(c, pkgSlice, n[1]).Prefer = NoPkg THEN <<>>
                          ELSE <<<<pathInfo(c, pkgSlice, n[1]).Prefer, 0>>>>]
    IN  IF loops # {}
        THEN MkErr("preferloop", <<>>, <<>>, c.Path,
                   <<CHOOSE x \in loops : \A y \in loops : x <= y>>)
        ELSE LET comps == tarjanSort(successors)
                 big == {i \in 1..Len(comps) : Len(comps[i]) > 1}
             IN  IF big # {}
                 THEN LET names == comps[CHOOSE x \in big : \A y \in big : x <= y]
                      IN  MkErr("prefercycle", <<>>, <<>>, c.Path,
                                [i \in 1..Len(names) |-> names[i][1]])
                 ELSE NoErr

\* Faulty variant of equivalentPaths: the kinds copy and glob are let through.
equivalentPaths_AnyKind(p, q) == SameContentPrefer(p, q)

\* Two paths are equivalent if their content is the same and sure to be
\* produced the same way.
equivalentPaths(p, q) ==
    SameContentPrefer(p, q) /\ p.Kind # "copy" /\ p.Kind # "glob"

RECURSIVE chainWalk(_, _, _, _, _)
chainWalk(c, pkgSlice, cur, tail, chain) ==
    IF cur = tail \/ cur = NoPkg THEN [kind |-> "ok", chain |-> chain]
    ELSE IF cur \notin DOMAIN pkgSlice THEN [kind |-> "panic", chain |-> chain]
    ELSE IF Len(chain) > Cardinality(DOMAIN pkgSlice)
    THEN [kind |-> "hang", chain |-> chain]
    ELSE LET nxt == pathInfo(c, pkgSlice, cur).Prefer IN
         chainWalk(c, pkgSlice, nxt, tail, Append(chain, nxt))

SplitOut(e, heads, chain) == [err |-> e, heads |-> heads, chain |-> chain]

Internal(c, what) == MkErr("internal", <<>>, <<>>, c.Path, <<what>>)

\* splitVertices: the possible results [err, heads, chain].
splitVertices(c, pkgSlice) ==
    LET V == DOMAIN pkgSlice
        nVertices == Cardinality(V)
        indegree == [v \in V |->
            Cardinality({u \in V : pathInfo(c, pkgSlice, u).Prefer = v})]
        outdegree == [u \in V |->
            IF pathInfo(c, pkgSlice, u).Prefer # NoPkg THEN 1 ELSE 0]
        heads == SortedInts({u \in V : indegree[u] = 0})
        unequal == {i \in 2..Len(heads) :
            ~equivalentPaths(pathInfo(c, pkgSlice, heads[i]),
                             pathInfo(c, pkgSlice, heads[1]))}
        tails == {u \in V : outdegree[u] = 0}
    IN  IF Len(heads) = 0 THEN {SplitOut(Internal(c, "head"), <<>>, <<>>)}
        ELSE IF unequal # {} THEN
            LET i == CHOOSE x \in unequal : \A y \in unequal : x <= y IN
            {SplitOut(MkErr("conflict", pkgSlice[heads[1]], pkgSlice[heads[i]],
                            c.Path, <<>>), <<>>, <<>>)}
        ELSE IF Len(heads) = nVertices THEN {SplitOut(NoErr, heads, <<>>)}
        ELSE IF Cardinality(tails) > 1 THEN
            {SplitOut(MkErr("conflict", pkgSlice[u], pkgSlice[t], c.Path, <<>>),
                      <<>>, <<>>) :
                <<u, t>> \in {<<x, y>> \in tails \X tails : x < y}}
        ELSE IF tails = {} THEN {SplitOut(Internal(c, "tail"), <<>>, <<>>)}
        ELSE LET tail == CHOOSE t \in tails : TRUE
                 chn == chainWalk(c, pkgSlice, heads[1], tail, <<>>)
                 chain == chn.chain
             IN  IF chn.kind # "ok"
                 THEN {SplitOut(MkErr(chn.kind, <<>>, <<>>, c.Path, <<>>), <<>>, <<>>)}
                 ELSE IF Len(chain) = 0
                 THEN {SplitOut(Internal(c, "empty chain"), <<>>, <<>>)}
                 ELSE IF chain[Len(chain)] # tail
                 THEN {SplitOut(Internal(c, "invalid chain"), <<>>, <<>>)}
                 ELSE IF Len(heads) + Len(chain) # nVertices
                 THEN {SplitOut(Internal(c, "vertices"), <<>>, <<>>)}
                 ELSE {SplitOut(NoErr, heads, chain)}

\* Faulty variant of conflictPriority: the chain is numbered from 0.
conflictPriority_ZeroBased(heads, chain) ==
    [u \in SeqRange(heads) \cup SeqRange(chain) |->
        IF \E i \in 1..Len(chain) : chain[i] = u
        THEN (CHOOSE i \in 1..Len(chain) :
                 chain[i] = u /\ \A j \in 1..Len(chain) : chain[j] = u => j <= i) - 1
        ELSE 0]

\* conflictPriority: 0 for the heads, i for the i-th package of the chain.
conflictPriority(heads, chain) ==
    [u \in SeqRange(heads) \cup SeqRange(chain) |->
        IF \E i \in 1..Len(chain) : chain[i] = u
        THEN CHOOSE i \in 1..Len(chain) :
                 chain[i] = u /\ \A j \in 1..Len(chain) : chain[j] = u => j <= i
        ELSE 0]

ResOut(e, prio) == [err |-> e, Priority |-> prio]

\* ResolveConflict: the set of its possible results [err, Priority].
ResolveConflict(c) ==
    UNION {
        IF same.err # NoErr THEN {ResOut(same.err, EmptyMap)}
        ELSE IF checkCycles(c, same.pkgSlice) # NoErr
        THEN {ResOut(checkCycles(c, same.pkgSlice), EmptyMap)}
        ELSE {IF sp.err # NoErr THEN ResOut(sp.err, EmptyMap)
              ELSE ResOut(NoErr, conflictPriority(sp.heads, sp.chain))
                 : sp \in splitVertices(c, same.pkgSlice)}
        : same \in checkSamePkgConflict(c)}

----------------------------------------------------------------------------
(* Report: paths, entries, Add and AddMutated *)

\* A path string is the sequence of its "/" separators and its names:
\* "/root/dir/file" is <<"/", "root", "/", "dir", "/", "file">>.
Slash == <<"/">>

\* strings.HasPrefix and strings.TrimPrefix.
HasPrefix(s, prefix) ==
    Len(s) >= Len(prefix) /\ SubSeq(s, 1, Len(prefix)) = prefix

TrimPrefix(s, prefix) ==
    IF HasPrefix(s, prefix) THEN SubSeq(s, Len(prefix) + 1, Len(s)) ELSE s

\* filepath.Clean of a rooted path: empty names and "." are dropped, ".."
\* drops the name before it (nothing at the root), no trailing separator.
RECURSIVE CleanNames(_, _, _)
CleanNames(path, i, out) ==
    IF i > Len(path) THEN out
    ELSE IF path[i] \in {"/", "."} THEN CleanNames(path, i + 1, out)
    ELSE IF path[i] = ".."
    THEN CleanNames(path, i + 1,
                    IF out = <<>> THEN out ELSE SubSeq(out, 1, Len(out) - 1))
    ELSE CleanNames(path, i + 1, Append(out, path[i]))

RECURSIVE JoinNames(_, _)
JoinNames(names, i) ==
    IF i > Len(names) THEN <<>>
    ELSE (IF i = 1 THEN <<>> ELSE Slash) \o <<names[i]>> \o JoinNames(names, i + 1)

Clean(path) == Slash \o JoinNames(CleanNames(path, 1, <<>>), 1)

\* The root the slicer reports under.
RootDir == <<"/", "root", "/">>

NewReport(root) == [Root |-> Clean(root) \o Slash, Entries |-> EmptyMap]

\* fsutil.Entry as the slicer reports it; Mode is the directory bit and the
\* permission bits.
FsEntry(path, isDir, perm, hash, size, link) ==
    [Path |-> path, Mode |-> [dir |-> isDir, perm |-> perm],
     Hash |-> hash, Size |-> size, Link |-> link]

\* The last call on the Report: its name, its arguments, the number of
\* calls made so far and the keys for which an AddMutated call succeeded.
NoCall ==
    [op |-> "", n |-> 0, slice |-> <<NoPkg, 0>>,
     entry |-> FsEntry(<<>>, FALSE, 0, "", 0, ""), mutated |-> {}]

RelOut(e, path) == [err |-> e, path |-> path]

relativePath(r, path, isDir) ==
    IF ~HasPrefix(path, r.Root)
    THEN RelOut(MkErr("outsideroot", <<>>, <<>>, path, <<>>), <<>>)
    ELSE RelOut(NoErr, Clean(Slash \o TrimPrefix(path, r.Root)) \o
                       (IF isDir THEN Slash ELSE <<>>))

RepOut(e, r) == [err |-> e, report |-> r]

\* Faulty variant of Add: the sizes of the two reports are not compared.
Add_NoSizeCheck(r, slice, fsEntry) ==
    LET rel == relativePath(r, fsEntry.Path, fsEntry.Mode.dir)
        relPath == rel.path
    IN  IF rel.err # NoErr THEN RepOut(rel.err, r)
        ELSE IF relPath \in DOMAIN r.Entries THEN
            LET entry == r.Entries[relPath] IN
            IF fsEntry.Mode # entry.Mode
            THEN RepOut(MkErr("divergingmode", <<>>, <<>>, relPath, <<>>), r)
            ELSE IF fsEntry.Link # entry.Link
            THEN RepOut(MkErr("diverginglink", <<>>, <<>>, relPath, <<>>), r)
            ELSE IF fsEntry.Hash # entry.Hash
            THEN RepOut(MkErr("diverginghash", <<>>, <<>>, relPath, <<>>), r)
            ELSE RepOut(NoErr, [r EXCEPT !.Entries[relPath].Slices = @ \cup {slice}])
        ELSE RepOut(NoErr,
                [r EXCEPT !.Entries = (relPath :>
                    [Path |-> relPath, Mode |-> fsEntry.Mode, Hash |-> fsEntry.Hash,
                     Size |-> fsEntry.Size, Slices |-> {slice}, Link |-> fsEntry.Link,
                     Mutated |-> FALSE, FinalHash |-> ""]) @@ r.Entries])

\* Report.Add
Add(r, slice, fsEntry) ==
    LET rel == relativePath(r, fsEntry.Path, fsEntry.Mode.dir)
        relPath == rel.path
    IN  IF rel.err # NoErr THEN RepOut(rel.err, r)
        ELSE IF relPath \in DOMAIN r.Entries THEN
            LET entry == r.Entries[relPath] IN
            IF fsEntry.Mode # entry.Mode
            THEN RepOut(MkErr("divergingmode", <<>>, <<>>, relPath, <<>>), r)
            ELSE IF fsEntry.Link # entry.Link
            THEN RepOut(MkErr("diverginglink", <<>>, <<>>, relPath, <<>>), r)
            ELSE IF fsEntry.Size # entry.Size
            THEN RepOut(MkErr("divergingsize", <<>>, <<>>, relPath, <<>>), r)
            ELSE IF fsEntry.Hash # entry.Hash
            THEN RepOut(MkErr("diverginghash", <<>>, <<>>, relPath, <<>>), r)
            ELSE RepOut(NoErr, [r EXCEPT !.Entries[relPath].Slices = @ \cup {slice}])
        ELSE RepOut(NoErr,
                [r EXCEPT !.Entries = (relPath :>
                    [Path |-> relPath, Mode |-> fsEntry.Mode, Hash |-> fsEntry.Hash,
                     Size |-> fsEntry.Size, Slices |-> {slice}, Link |-> fsEntry.Link,
                     Mutated |-> FALSE, FinalHash |-> ""]) @@ r.Entries])

\* Faulty variant of AddMutated: an entry that was mutated before is
\* updated again.
AddMutated_NoMutatedCheck(r, fsEntry) ==
    LET rel == relativePath(r, fsEntry.Path, fsEntry.Mode.dir)
        relPath == rel.path
    IN  IF rel.err # NoErr THEN RepOut(rel.err, r)
        ELSE IF relPath \notin DOMAIN r.Entries
        THEN RepOut(MkErr("notadded", <<>>, <<>>, relPath, <<>>), r)
        ELSE RepOut(NoErr, [r EXCEPT !.Entries[relPath].Mutated = TRUE,
                                     !.Entries[relPath].FinalHash = fsEntry.Hash,
                                     !.Entries[relPath].Size = fsEntry.Size])

\* Faulty variant of AddMutated: the hash of the mutated content replaces the
\* hash of the entry.
AddMutated_OverwritesHash(r, fsEntry) ==
    LET rel == relativePath(r, fsEntry.Path, fsEntry.Mode.dir)
        relPath == rel.path
    IN  IF rel.err # NoErr THEN RepOut(rel.err, r)
        ELSE IF relPath \notin DOMAIN r.Entries
        THEN RepOut(MkErr("notadded", <<>>, <<>>, relPath, <<>>), r)
        ELSE IF r.Entries[relPath].Mutated
        THEN RepOut(MkErr("mutatedbefore", <<>>, <<>>, relPath, <<>>), r)
        ELSE RepOut(NoErr, [r EXCEPT !.Entries[relPath].Mutated = TRUE,
                                     !.Entries[relPath].Hash = fsEntry.Hash,
                                     !.Entries[relPath].FinalHash = fsEntry.Hash,
                                     !.Entries[relPath].Size = fsEntry.Size])

\* Report.AddMutated
AddMutated(r, fsEntry) ==
    LET rel == relativePath(r, fsEntry.Path, fsEntry.Mode.dir)
        relPath == rel.path
    IN  IF rel.err # NoErr THEN RepOut(rel.err, r)
        ELSE IF relPath \notin DOMAIN r.Entries
        THEN RepOut(MkErr("notadded", <<>>, <<>>, relPath, <<>>), r)
        ELSE IF r.Entries[relPath].Mutated
        THEN RepOut(MkErr("mutatedbefore", <<>>, <<>>, relPath, <<>>), r)
        ELSE RepOut(NoErr, [r EXCEPT !.Entries[relPath].Mutated = TRUE,
                                     !.Entries[relPath].FinalHash = fsEntry.Hash,
                                     !.Entries[relPath].Size = fsEntry.Size])

\* What the slicer reports: the directory /root/dir/, the file
\* /root/dir/file (also under a path that is not clean), a directory of the
\* same name, and a file outside of the root; each file and directory also
\* with one of mode, hash, size and link changed.
DirPathRaw == <<"/", "root", "/", "dir", "/">>
FilePathRaw == <<"/", "root", "/", "dir", "/", "file">>

FsEntries ==
    {FsEntry(DirPathRaw, TRUE, perm, "", 0, "") : perm \in {493, 448}}
    \cup {FsEntry(FilePathRaw, FALSE, 420, "h1", 1, ""),
          FsEntry(FilePathRaw, FALSE, 493, "h1", 1, ""),
          FsEntry(FilePathRaw, FALSE, 420, "h2", 1, ""),
          FsEntry(FilePathRaw, FALSE, 420, "h1", 2, ""),
          FsEntry(FilePathRaw, FALSE, 420, "h1", 1, "target"),
          FsEntry(<<"/", "root", "/", "dir", "/", ".", "/", "file">>,
                  FALSE, 420, "h1", 1, ""),
          FsEntry(FilePathRaw, TRUE, 493, "", 0, ""),
          FsEntry(<<"/", "other", "/", "file">>, FALSE, 420, "h1", 1, "")}

\* The entries reported after the mutation scripts ran.
MutatedEntries ==
    {FsEntry(FilePathRaw, FALSE, 420, "h2", 2, ""),
     FsEntry(FilePathRaw, FALSE, 420, "h3", 1, ""),
     FsEntry(DirPathRaw, TRUE, 493, "", 0, ""),
     FsEntry(<<"/", "other", "/", "file">>, FALSE, 420, "h1", 1, "")}

\* The slices whose content is reported.
ReportSlices == {<<1, 1>>, <<2, 1>>}

----------------------------------------------------------------------------
(* The manifest: rows, their JSON lines and the jsonwall writer *)

\* The bytes (ASCII) of the strings the manifest is made of: the names in
\* paths, the hashes and link targets of the reported entries, the keys and
\* kinds of the rows, and the punctuation of JSON.
Text(s) ==
    CASE s = "" -> <<>>
      [] s = "/" -> <<47>>
      [] s = "." -> <<46>>
      [] s = ".." -> <<46, 46>>
      [] s = "**" -> <<42, 42>>
      [] s = "dir" -> <<100, 105, 114>>
      [] s = "file" -> <<102, 105, 108, 101>>
      [] s = "root" -> <<114, 111, 111, 116>>
      [] s = "other" -> <<111, 116, 104, 101, 114>>
      [] s = "db" -> <<100, 98>>
      [] s = "db-2" -> <<100, 98, 45, 50>>
      [] s = "jsonwall" -> <<106, 115, 111, 110, 119, 97, 108, 108>>
      [] s = "schema" -> <<115, 99, 104, 101, 109, 97>>
      [] s = "count" -> <<99, 111, 117, 110, 116>>
      [] s = "1.0" -> <<49, 46, 48>>
      [] s = "chisel.db" -> <<99, 104, 105, 115, 101, 108, 46, 100, 98>>
      [] s = "h1" -> <<104, 49>>
      [] s = "h2" -> <<104, 50>>
      [] s = "h3" -> <<104, 51>>
      [] s = "target" -> <<116, 97, 114, 103, 101, 116>>
      [] s = "kind" -> <<107, 105, 110, 100>>
      [] s = "package" -> <<112, 97, 99, 107, 97, 103, 101>>
      [] s = "slice" -> <<115, 108, 105, 99, 101>>
      [] s = "path" -> <<112, 97, 116, 104>>
      [] s = "content" -> <<99, 111, 110, 116, 101, 110, 116>>
      [] s = "name" -> <<110, 97, 109, 101>>
      [] s = "version" -> <<118, 101, 114, 115, 105, 111, 110>>
      [] s = "sha256" -> <<115, 104, 97, 50, 53, 54>>
      [] s = "final_sha256" -> <<102, 105, 110, 97, 108, 95, 115, 104, 97, 50, 53, 54>>
      [] s = "arch" -> <<97, 114, 99, 104>>
      [] s = "mode" -> <<109, 111, 100, 101>>
      [] s = "slices" -> <<115, 108, 105, 99, 101, 115>>
      [] s = "size" -> <<115, 105, 122, 101>>
      [] s = "link" -> <<108, 105, 110, 107>>
      [] s = "pkg-" -> <<112, 107, 103, 45>>
      [] s = "_" -> <<95>>
      [] s = "s" -> <<115>>
      [] s = "_version" -> <<95, 118, 101, 114, 115, 105, 111, 110>>
      [] s = "_hash" -> <<95, 104, 97, 115, 104>>
      [] s = "_arch" -> <<95, 97, 114, 99, 104>>
      [] s = "0" -> <<48>>
      [] s = "0x" -> <<48, 120>>
      [] s = "{" -> <<123>>
      [] s = "}" -> <<125>>
      [] s = "[" -> <<91>>
      [] s = "]" -> <<93>>
      [] s = "," -> <<44>>
      [] s = ":" -> <<58>>
      [] s = "\"" -> <<34>>

\* The digits of a number in a base (strconv, "%o").
RECURSIVE Digits(_, _)
Digits(n, base) ==
    IF n < base THEN <<48 + n>>
    ELSE Digits(n \div base, base) \o <<48 + (n % base)>>

\* The bytes of a path, of a package name "pkg-N" and of Slice.String().
RECURSIVE PathText(_)
PathText(path) ==
    IF path = <<>> THEN <<>> ELSE Text(Head(path)) \o PathText(Tail(path))

PkgText(pkg) == Text("pkg-") \o Digits(pkg, 10)

SliceText(key) == PkgText(key[1]) \o Text("_") \o Text("s") \o Digits(key[2], 10)

\* A sequence of byte strings in ascending order, repetitions kept.
RECURSIVE InsertSorted(_, _)
InsertSorted(sorted, x) ==
    IF sorted = <<>> THEN <<x>>
    ELSE IF LexLess(x, Head(sorted)) THEN <<x>> \o sorted
    ELSE <<Head(sorted)>> \o InsertSorted(Tail(sorted), x)

RECURSIVE SortStrings(_)
SortStrings(strs) ==
    IF strs = <<>> THEN <<>>
    ELSE InsertSorted(SortStrings(SubSeq(strs, 1, Len(strs) - 1)), strs[Len(strs)])

\* archive.PackageInfo as the test archive answers it.
PackageInfo(pkg) ==
    [Name |-> PkgText(pkg), Version |-> PkgText(pkg) \o Text("_version"),
     Hash |-> PkgText(pkg) \o Text("_hash"), Arch |-> PkgText(pkg) \o Text("_arch")]

\* The rows of the manifest; strings are held as their bytes.
dbPackage(info) ==
    [Kind |-> "package", Name |-> info.Name, Version |-> info.Version,
     Digest |-> info.Hash, Arch |-> info.Arch]

dbSlice(name) == [Kind |-> "slice", Name |-> name]

dbPath(path, mode, slices, hash, size, link) ==
    [Kind |-> "path", Path |-> path, Mode |-> mode, Slices |-> slices,
     Hash |-> hash, FinalHash |-> <<>>, Size |-> size, Link |-> link]

dbContent(slice, path) == [Kind |-> "content", Slice |-> slice, Path |-> path]

\* encoding/json: a string, an array of strings, the members of an object
\* ("omitempty" members with an empty value are left out by giving <<>>).
JsonString(bytes) == Text("\"") \o bytes \o Text("\"")

RECURSIVE JsonJoin(_, _)
JsonJoin(parts, i) ==
    IF i > Len(parts) THEN <<>>
    ELSE IF parts[i] = <<>> THEN JsonJoin(parts, i + 1)
    ELSE (IF \A j \in 1..(i - 1) : parts[j] = <<>> THEN <<>> ELSE Text(","))
         \o parts[i] \o JsonJoin(parts, i + 1)

JsonArray(strs) ==
    Text("[") \o JsonJoin([i \in 1..Len(strs) |-> JsonString(strs[i])], 1) \o Text("]")

JsonMember(key, value) == JsonString(Text(key)) \o Text(":") \o value

JsonOmitEmpty(key, bytes) ==
    IF bytes = <<>> THEN <<>> ELSE JsonMember(key, JsonString(bytes))

JsonObject(members) == Text("{") \o JsonJoin(members, 1) \o Text("}")

\* json.Marshal of a row, by the struct tags of its kind.
Marshal(row) ==
    CASE row.Kind = "package" ->
            JsonObject(<<JsonMember("kind", JsonString(Text(row.Kind))),
                         JsonMember("name", JsonString(row.Name)),
                         JsonMember("version", JsonString(row.Version)),
                         JsonMember("sha256", JsonString(row.Digest)),
                         JsonMember("arch", JsonString(row.Arch))>>)
      [] row.Kind = "slice" ->
            JsonObject(<<JsonMember("kind", JsonString(Text(row.Kind))),
                         JsonMember("name", JsonString(row.Name))>>)
      [] row.Kind = "path" ->
            JsonObject(<<JsonMember("kind", JsonString(Text(row.Kind))),
                         JsonMember("path", JsonString(row.Path)),
                         JsonMember("mode", JsonString(row.Mode)),
                         JsonMember("slices", JsonArray(row.Slices)),
                         JsonOmitEmpty("sha256", row.Hash),
                         JsonOmitEmpty("final_sha256", row.FinalHash),
                         IF row.Size = 0 THEN <<>>
                         ELSE JsonMember("size", Digits(row.Size, 10)),
                         JsonOmitEmpty("link", row.Link)>>)
      [] row.Kind = "content" ->
            JsonObject(<<JsonMember("kind", JsonString(Text(row.Kind))),
                         JsonMember("slice", JsonString(row.Slice)),
                         JsonMember("path", JsonString(row.Path))>>)

\* The orders in which Go may range over a map with the keys S.
OrdersOf(S) ==
    {o \in [1..Cardinality(S) -> S] :
        \A i \in DOMAIN o, j \in DOMAIN o : i # j => o[i] # o[j]}

\* fmt.Sprintf("0%o", mode & fs.ModePerm)
ModeText(perm) == Text("0") \o Digits(perm % 512, 8)

\* Faulty variant of entryRows: the slice names of the path row are left in
\* the order the slices were ranged over.
entryRows_UnsortedSlices(entry) ==
    {[i \in 1..Len(o) |-> dbContent(SliceText(o[i]), PathText(entry.Path))]
        \o <<dbPath(PathText(entry.Path), ModeText(entry.Mode.perm),
                    [i \in 1..Len(o) |-> SliceText(o[i])],
                    Text(entry.Hash), entry.Size, Text(entry.Link))>> :
     o \in OrdersOf(entry.Slices)}

\* The rows generateManifest adds for one report entry, for each order in
\* which the slices of the entry are ranged over.
entryRows(entry) ==
    {[i \in 1..Len(o) |-> dbContent(SliceText(o[i]), PathText(entry.Path))]
        \o <<dbPath(PathText(entry.Path), ModeText(entry.Mode.perm),
                    SortStrings([i \in 1..Len(o) |-> SliceText(o[i])]),
                    Text(entry.Hash), entry.Size, Text(entry.Link))>> :
     o \in OrdersOf(entry.Slices)}

RECURSIVE entriesRows(_, _, _)
entriesRows(entries, keys, i) ==
    IF i > Len(keys) THEN {<<>>}
    ELSE {a \o b : a \in entryRows(entries[keys[i]]),
                   b \in entriesRows(entries, keys, i + 1)}

\* The directory the manifest is generated in and the name of its file.
ManifestDir == <<"/", "db", "/", "**">>
dbFile == "chisel.db"

getManifestPath(generatePath) ==
    LET dir == Clean(IF generatePath # <<>> /\ generatePath[Len(generatePath)] = "**"
                     THEN SubSeq(generatePath, 1, Len(generatePath) - 1)
                     ELSE generatePath)
    IN  Clean(dir \o Slash \o <<dbFile>>)

\* The mode of the manifest file.
dbMode == 420

\* The rows added for the "generate: manifest" paths, ranged over in the
\* order paths.
RECURSIVE manifestRows(_, _, _)
manifestRows(manifestSlices, paths, i) ==
    IF i > Len(paths) THEN <<>>
    ELSE LET slices == manifestSlices[paths[i]]
             fPath == PathText(getManifestPath(paths[i]))
         IN  [k \in 1..Len(slices) |-> dbContent(SliceText(slices[k]), fPath)]
             \o <<dbPath(fPath, ModeText(dbMode),
                         SortStrings([k \in 1..Len(slices) |-> SliceText(slices[k])]),
                         <<>>, 0, <<>>)>>
             \o manifestRows(manifestSlices, paths, i + 1)

\* generateManifest: the rows handed to the writer, in the order of the
\* Add calls, for every order in which the maps are ranged over.
generateManifest(opts) ==
    {[i \in 1..Len(opts.PackageInfo) |-> dbPackage(opts.PackageInfo[i])]
        \o [i \in 1..Len(opts.Slices) |-> dbSlice(SliceText(opts.Slices[i]))]
        \o er \o manifestRows(opts.ManifestSlices, mo, 1) :
     er \in UNION {entriesRows(opts.Report.Entries, ko, 1) :
                      ko \in OrdersOf(DOMAIN opts.Report.Entries)},
     mo \in OrdersOf(DOMAIN opts.ManifestSlices)}

\* The writer with the rows left in the order they were added.
WriteRows_InAddOrder(dbw) == [i \in 1..Len(dbw) |-> Marshal(dbw[i])]

\* jsonwall: the lines of the rows, in ascending order.
WriteRows(dbw) == SortStrings([i \in 1..Len(dbw) |-> Marshal(dbw[i])])

\* The header counting the rows only.
HeaderCount_RowsOnly(dbw) == Len(dbw)

\* jsonwall: the count of the header line, which counts itself.
HeaderCount(dbw) == Len(dbw) + 1

\* DBWriter.WriteTo: the header and the lines after it.
WriteTo(dbw) ==
    [header |-> [jsonwall |-> "1.0", schema |-> "1.0", count |-> HeaderCount(dbw)],
     rows |-> WriteRows(dbw)]

\* The keys of the slices cut.
CutSlices == SortedKeys(ReportSlices)

----------------------------------------------------------------------------
(* Releases read from disk *)

Infos == {CopyInfo(p) : p \in {NoPkg} \cup PkgNames} \cup
         {TextInfo(p) : p \in {NoPkg} \cup PkgNames} \cup
         {GlobInfo(NoPkg)}

\* The path key under which a PathInfo is declared: a glob is declared under
\* the path with wildcards, anything else under the plain path.
PathOf(info) == IF info.Kind \in {"glob", "generate"} THEN GlobDir ELSE CfgPath

\* PathInfo with kind generate (generate: manifest on a path ending in "**").
GenerateInfo ==
    [Kind |-> "generate", Info |-> "", Mode |-> 0, Mutable |-> FALSE,
     Generate |-> "manifest", Prefer |-> NoPkg]

\* What a second slice of the same package may declare for the path of info
\* with one attribute changed: another mode; for a text path another text or
\* mutable; for a copy path another source; for a glob the manifest
\* generator.
Variants(info) ==
    IF info.Kind = "glob" THEN {GenerateInfo}
    ELSE {[info EXCEPT !.Mode = 493]} \cup
         (IF info.Kind = "text"
          THEN {[info EXCEPT !.Info = "other"], [info EXCEPT !.Mutable = TRUE]}
          ELSE {[info EXCEPT !.Info = "/etc/other"]})

MkPackage(name, slices) ==
    [Name |-> name, Archive |-> <<>>, Slices |-> slices]

\* The archive "ubuntu"; the names of archives are held as their bytes.
DefaultArchives ==
    <<117, 98, 117, 110, 116, 117>> :>
        [Name |-> <<117, 98, 117, 110, 116, 117>>, Priority |-> 0]

MkRelease(pkgs) == [Packages |-> pkgs, Archives |-> DefaultArchives]

\* What the slice definition file of one package holds: no file ("absent"),
\* one slice declaring nothing ("empty"), or one slice declaring one path.
PkgChoices == {<<"absent">>, <<"empty">>} \cup {<<"path", i>> : i \in Infos}

PkgOf(name, choice) ==
    IF choice[1] = "empty"
    THEN MkPackage(name, 1 :> MkSlice(name, 1, EmptyMap))
    ELSE MkPackage(name, 1 :> MkSlice(name, 1, PathOf(choice[2]) :> choice[2]))

\* The release in which package n is as choices[n] says, and package two
\* (if not NoPkg) has two slices declaring a path with infos i and j.
ReleaseOf(choices, two, i, j) ==
    MkRelease(
        [n \in {m \in PkgNames : m = two \/ choices[m][1] # "absent"} |->
            IF n = two
            THEN MkPackage(n, (1 :> MkSlice(n, 1, PathOf(i) :> i)) @@
                              (2 :> MkSlice(n, 2, PathOf(j) :> j)))
            ELSE PkgOf(n, choices[n])])

\* Releases whose slices declare a concrete path and patterns matching it.
FilePath == "/dir/file"

\* What one slice declares: the file (a copy path), the pattern as a glob,
\* or the file together with the glob, each with or without prefer (of the
\* glob when both are declared); the pattern as the manifest generator, or
\* the file together with the generator.
GlobDecls ==
    {<<kind, q>> : kind \in {"file", "glob", "file+glob"}, q \in {NoPkg} \cup PkgNames}
    \cup {<<"generate", NoPkg>>, <<"file+generate", NoPkg>>}

GlobContents(decl) ==
    CASE decl[1] = "file" -> FilePath :> CopyInfo(decl[2])
      [] decl[1] = "glob" -> GlobDir :> GlobInfo(decl[2])
      [] decl[1] = "generate" -> GlobDir :> GenerateInfo
      [] decl[1] = "file+glob" ->
            (FilePath :> CopyInfo(NoPkg)) @@ (GlobDir :> GlobInfo(decl[2]))
      [] OTHER -> (FilePath :> CopyInfo(NoPkg)) @@ (GlobDir :> GenerateInfo)

\* The release in which package n has one slice declaring decls[n] (no file
\* for the package when decls[n] is "absent"), except that the first package
\* has two slices declaring two[1] and two[2] when two is not empty.
GlobReleaseOf(decls, two) ==
    MkRelease(
        [n \in {m \in PkgNames : decls[m] # <<"absent">> \/ (m = 1 /\ two # <<>>)} |->
            IF n = 1 /\ two # <<>>
            THEN MkPackage(n, (1 :> MkSlice(n, 1, GlobContents(two[1]))) @@
                              (2 :> MkSlice(n, 2, GlobContents(two[2]))))
            ELSE MkPackage(n, 1 :> MkSlice(n, 1, GlobContents(decls[n])))])

\* Releases whose slices list essentials: the slices 1 and 2 of the first
\* package and slice 1 of the second.  An essential refers to one of these,
\* to the undefined second slice of the second package, or to a slice of the
\* last package, which has no slice definition file.
EssTargets == {<<1, 1>>, <<1, 2>>, <<2, 1>>, <<2, 2>>, <<MaxPkgs, 1>>}

\* The essential lists: up to max distinct targets in ascending order.
EssLists(max) ==
    UNION {{es \in [1..n -> EssTargets] :
               \A i \in 1..(n - 1) : TupleLess(es[i], es[i + 1])} : n \in 0..max}

EssSlice(pkg, name, essential) ==
    [MkSlice(pkg, name, EmptyMap) EXCEPT !.Essential = essential]

EssReleaseOf(e11, has12, e12, has2, e21) ==
    MkRelease(
        [n \in {1} \cup (IF has2 THEN {2} ELSE {}) |->
            IF n = 1
            THEN MkPackage(1, [m \in {1} \cup (IF has12 THEN {2} ELSE {}) |->
                                  EssSlice(1, m, IF m = 1 THEN e11 ELSE e12)])
            ELSE MkPackage(2, 1 :> EssSlice(2, 1, e21))])

AllKeys == PkgNames \X SliceNames

\* The slice keys requested from Select: up to MaxKeys keys, repetitions
\* allowed, listed in ascending order.
KeySeqs ==
    UNION {{ks \in [1..n -> AllKeys] :
               \A i \in 1..(n - 1) : ks[i] = ks[i + 1] \/ TupleLess(ks[i], ks[i + 1])} :
              n \in 0..MaxKeys}

----------------------------------------------------------------------------
(* Specification *)

\* The packages of r with a slice that declares path.
Declaring(r, path) ==
    {p \in DOMAIN r.Packages :
        \E n \in DOMAIN r.Packages[p].Slices :
            path \in DOMAIN r.Packages[p].Slices[n].Contents}

NoProvider == [path \in Paths |-> {}]
NoRequest == [keys |-> <<>>, validated |-> FALSE]
NoConflict == [Path |-> "", PathInfos |-> EmptyMap]

\* Nothing has been called yet.
\* No file under the target directory and no write started: files maps a
\* path to its file, jobs lists the writers still to be written with the
\* paths and the lines of each, open the files the first of them has opened,
\* pc its position ("open", "write", "close"), by the routine that started
\* the writes, and fault tells whether an error of Close was discarded.
NoDisk ==
    [files |-> EmptyMap, jobs |-> <<>>, open |-> <<>>, pc |-> "", by |-> "",
     fault |-> FALSE]
NoOverlap == [p |-> <<>>, q |-> <<>>, prefix |-> <<>>, done |-> FALSE]

Idle ==
    /\ err = NoErr
    /\ pathPriorities = EmptyMap
    /\ conflict = NoConflict
    /\ resolution = EmptyMap
    /\ selection = <<>>
    /\ provider = NoProvider
    /\ request = NoRequest
    /\ report = NewReport(RootDir)
    /\ call = NoCall
    /\ manifest = <<>>
    /\ walk = NoWalk
    /\ disk = NoDisk
    /\ installedPackages = <<>>

\* The releases read: either every package has at most one slice, or the
\* first or the last package has two slices that declare a path, the second
\* differing from the first in at most one of content and prefer (in all of
\* kind, info and mode, or, in the first package, in one attribute only),
\* and every other package is absent or declares CfgPath.
Init ==
    /\ \E choices \in [PkgNames -> PkgChoices], two \in {NoPkg, 1, MaxPkgs} :
        \/ two = NoPkg /\ release = ReleaseOf(choices, two, CopyInfo(NoPkg), CopyInfo(NoPkg))
        \/ /\ two # NoPkg
           /\ choices[two] = <<"absent">>
           /\ \A n \in PkgNames :
                choices[n] # <<"empty">> /\ choices[n] # <<"path", GlobInfo(NoPkg)>>
           /\ \E i \in Infos :
              \E j \in Infos \cup (IF two = 1 THEN Variants(i) ELSE {}) :
                /\ SameContent(i, j) \/ i.Prefer = j.Prefer
                /\ release = ReleaseOf(choices, two, i, j)
    /\ phase = "loaded"
    /\ Idle
    /\ overlap = NoOverlap

\* The releases read when a pattern and a path it matches are declared:
\* every package has one slice, or the first package has two slices that
\* declare without prefer.
InitGlob ==
    /\ \E decls \in [PkgNames -> {<<"absent">>} \cup GlobDecls] :
        \/ release = GlobReleaseOf(decls, <<>>)
        \/ /\ decls[1] = <<"absent">>
           /\ \E d \in GlobDecls, e \in GlobDecls :
                /\ d[2] = NoPkg /\ e[2] = NoPkg /\ d # e
                /\ release = GlobReleaseOf(decls, <<d, e>>)
    /\ phase = "loaded"
    /\ Idle
    /\ overlap = NoOverlap

\* The releases read when slices list essentials.
InitEss ==
    /\ \E e11 \in EssLists(2), e12 \in EssLists(1), e21 \in EssLists(1),
          has12 \in BOOLEAN, has2 \in BOOLEAN :
        /\ has12 \/ e12 = <<>>
        /\ has2 \/ e21 = <<>>
        /\ release = EssReleaseOf(e11, has12, e12, has2, e21)
    /\ phase = "loaded"
    /\ Idle
    /\ overlap = NoOverlap

\* locateManifests: the slices that declare each "generate: manifest" path,
\* in the order of slices.
locateManifests(slices) ==
    LET declares(s, path) ==
            path \in DOMAIN s.Contents /\ s.Contents[path].Generate = "manifest"
        paths == {path \in UNION {DOMAIN slices[i].Contents : i \in DOMAIN slices} :
                     \E i \in DOMAIN slices : declares(slices[i], path)}
    IN  [path \in paths |->
            LET found == SelectSeq(slices, LAMBDA s : declares(s, path))
            IN  [i \in 1..Len(found) |-> SliceString(found[i])]]

\* The options cmdCut.Execute hands to generateManifest after a run of the
\* slicer on the release r that returned the report rep.
ManifestOpts(r, rep) ==
    [ManifestSlices |-> locateManifests([i \in 1..Len(CutSlices) |->
                                            SliceOf(r, CutSlices[i])]),
     PackageInfo |-> [i \in 1..2 |-> PackageInfo(i)],
     Slices |-> CutSlices,
     Report |-> rep]

\* The second directory a manifest is generated in.
ManifestDir2 == <<"/", "db-2", "/", "**">>

\* strings.TrimRight(path, "*")
TrimStars(path) ==
    IF path # <<>> /\ path[Len(path)] = "**"
    THEN SubSeq(path, 1, Len(path) - 1) ELSE path

\* findManifestDir: the directories it can return, the path found first
\* depending on the order in which the contents of a slice are ranged over;
\* the empty set stands for its error.
findManifestDir(slices) ==
    LET generates(s) == {path \in DOMAIN s.Contents :
                            s.Contents[path].Generate = "manifest"}
        with == {i \in DOMAIN slices : generates(slices[i]) # {}}
    IN  IF with = {} THEN {}
        ELSE {TrimStars(path) :
                path \in generates(slices[CHOOSE i \in with : \A j \in with : i <= j])}

\* gatherPackageInfo: the info of the packages of the selected slices, each
\* package once, in the order of the slices.
gatherPackageInfo(slices) ==
    LET first == SelectSeq([i \in 1..Len(slices) |-> i],
                           LAMBDA i : \A j \in 1..(i - 1) :
                                         slices[j].Package # slices[i].Package)
    IN  [k \in 1..Len(first) |-> PackageInfo(slices[first[k]].Package)]

\* The rows of one report entry as GenerateDB of cmd_cut.go adds them: the
\* path row in the first pass, the content rows in the second.
RECURSIVE pathRowsDB(_, _, _)
pathRowsDB(entries, keys, i) ==
    IF i > Len(keys) THEN {<<>>}
    ELSE LET entry == entries[keys[i]] IN
         {<<dbPath(PathText(entry.Path), ModeText(entry.Mode.perm),
                   [k \in 1..Len(o) |-> SliceText(o[k])],
                   Text(entry.Hash), entry.Size, Text(entry.Link))>> \o rest :
            o \in OrdersOf(entry.Slices), rest \in pathRowsDB(entries, keys, i + 1)}

RECURSIVE contentRowsDB(_, _, _)
contentRowsDB(entries, keys, i) ==
    IF i > Len(keys) THEN {<<>>}
    ELSE LET entry == entries[keys[i]] IN
         {[k \in 1..Len(o) |-> dbContent(SliceText(o[k]), PathText(entry.Path))] \o rest :
            o \in OrdersOf(entry.Slices), rest \in contentRowsDB(entries, keys, i + 1)}

\* GenerateDB of cmd_cut.go: the rows handed to the writer of opts.Dir.
GenerateDB(opts) ==
    {[i \in 1..Len(opts.PackageInfo) |-> dbPackage(opts.PackageInfo[i])]
        \o [i \in 1..Len(opts.Slices) |-> dbSlice(SliceText(opts.Slices[i]))]
        \o pr \o cr :
     pr \in UNION {pathRowsDB(opts.Report.Entries, ko, 1) :
                      ko \in OrdersOf(DOMAIN opts.Report.Entries)},
     cr \in UNION {contentRowsDB(opts.Report.Entries, ko, 1) :
                      ko \in OrdersOf(DOMAIN opts.Report.Entries)}}

\* The rows generateDB adds for the report entries: for each entry the
\* content rows and then the path row, its slice names in the order the
\* slices were ranged over.
RECURSIVE entriesRowsDB(_, _, _)
entriesRowsDB(entries, keys, i) ==
    IF i > Len(keys) THEN {<<>>}
    ELSE LET entry == entries[keys[i]] IN
         {[k \in 1..Len(o) |-> dbContent(SliceText(o[k]), PathText(entry.Path))]
            \o <<dbPath(PathText(entry.Path), ModeText(entry.Mode.perm),
                        [k \in 1..Len(o) |-> SliceText(o[k])],
                        Text(entry.Hash), entry.Size, Text(entry.Link))>>
            \o rest :
            o \in OrdersOf(entry.Slices), rest \in entriesRowsDB(entries, keys, i + 1)}

\* The rows generateDB adds for the DB paths themselves, ranged over in the
\* order paths.
RECURSIVE selfRowsDB(_, _, _)
selfRowsDB(manifestSlices, paths, i) ==
    IF i > Len(paths) THEN <<>>
    ELSE LET slices == manifestSlices[paths[i]]
             dbPathText == PathText(getManifestPath(paths[i]))
         IN  [k \in 1..Len(slices) |-> dbContent(SliceText(slices[k]), dbPathText)]
             \o <<dbPath(dbPathText, ModeText(dbMode),
                         [k \in 1..Len(slices) |-> SliceText(slices[k])],
                         <<>>, 0, <<>>)>>
             \o selfRowsDB(manifestSlices, paths, i + 1)

\* generateDB of db.go: the rows handed to the writer and the paths of the
\* DBs, for every order in which the maps are ranged over.
generateDB(opts) ==
    {[dbw |-> [i \in 1..Len(opts.PackageInfo) |-> dbPackage(opts.PackageInfo[i])]
                \o [i \in 1..Len(opts.Slices) |-> dbSlice(SliceText(opts.Slices[i]))]
                \o er \o selfRowsDB(opts.ManifestSlices, mo, 1),
      dbPaths |-> [i \in 1..Len(mo) |-> getManifestPath(mo[i])]] :
     er \in UNION {entriesRowsDB(opts.Report.Entries, ko, 1) :
                      ko \in OrdersOf(DOMAIN opts.Report.Entries)},
     mo \in OrdersOf(DOMAIN opts.ManifestSlices)}

\* jsonwall: the header line.
HeaderLine(header) ==
    JsonObject(<<JsonMember("jsonwall", JsonString(Text(header.jsonwall))),
                 JsonMember("schema", JsonString(Text(header.schema))),
                 JsonMember("count", Digits(header.count, 10))>>)

\* What the writer sends through the zstd encoder: the header line and the
\* lines of the rows.
WriterLines(dbw) == <<HeaderLine(WriteTo(dbw).header)>> \o WriteTo(dbw).rows

\* os.OpenFile(path, O_CREATE|O_TRUNC|O_WRONLY): the file exists and is empty.
\* A file holds the lines decoded from it; complete tells whether what is in
\* it is a whole zstd stream (for a file that is not compressed: whether
\* the last write put all of its lines into it).
OpenFile(files, path) == (path :> [data |-> <<>>, complete |-> FALSE]) @@ files

\* A writer about to be written: it opens its paths first, if it has any.
StartJob(d) ==
    [d EXCEPT !.open = <<>>,
              !.pc = IF d.jobs # <<>> /\ d.jobs[1].paths # <<>> THEN "open" ELSE "write"]

\* The first n of the open files receive what the encoder sends: the lines
\* (whole tells whether this is the end of the stream, sent by Close).
SendTo(d, n, whole) ==
    [d EXCEPT !.files = [f \in DOMAIN d.files |->
        IF \E i \in 1..n : d.open[i] = f
        THEN [data |-> d.jobs[1].lines, complete |-> whole]
        ELSE d.files[f]]]

\* The deferred calls have closed the files: the next writer, if any.
NextJob(d) ==
    IF Len(d.jobs) > 1 THEN StartJob([d EXCEPT !.jobs = Tail(d.jobs)])
    ELSE [d EXCEPT !.jobs = <<>>, !.open = <<>>, !.pc = ""]

\* filepath.Join(root, path)
JoinRoot(root, path) == Clean(root \o Slash \o path)

\* GenerateDB of db.go: the path of the writer made for a manifest path,
\* and that path inside the root.
DBWriterPath(root, path) == JoinRoot(root, TrimStars(path)) \o Slash \o <<dbFile>>

RelPath(root, dbwPath) == Clean(Slash \o TrimPrefix(dbwPath, root))

\* GenerateDB of db.go: the rows it adds to every writer for the DB paths
\* themselves, listed in the order paths.
RECURSIVE selfRowsEach(_, _, _, _)
selfRowsEach(root, manifestInfo, paths, i) ==
    IF i > Len(paths) THEN <<>>
    ELSE LET slices == manifestInfo[paths[i]]
             relPath == PathText(RelPath(root, DBWriterPath(root, paths[i])))
         IN  <<dbPath(relPath, ModeText(dbMode),
                      [k \in 1..Len(slices) |-> SliceText(slices[k])],
                      <<>>, 0, <<>>)>>
             \o [k \in 1..Len(slices) |-> dbContent(SliceText(slices[k]), relPath)]
             \o selfRowsEach(root, manifestInfo, paths, i + 1)

\* GenerateDB of db.go: the writers in the order they are written, each
\* with its path and the rows added to it, for every order in which the
\* maps are ranged over (the report entries anew for each writer).
GenerateDBEach(root, opts) ==
    UNION {UNION {
        {[i \in 1..Len(wo) |-> [path |-> DBWriterPath(root, wo[i]), dbw |-> rows[i]]] :
            rows \in [1..Len(wo) ->
                {[i \in 1..Len(opts.PackageInfo) |-> dbPackage(opts.PackageInfo[i])]
                    \o [i \in 1..Len(opts.Slices) |-> dbSlice(SliceText(opts.Slices[i]))]
                    \o er \o selfRowsEach(root, opts.ManifestSlices, po, 1) :
                 er \in UNION {entriesRowsDB(opts.Report.Entries, ko, 1) :
                                  ko \in OrdersOf(DOMAIN opts.Report.Entries)}}]}
        : po \in OrdersOf(DOMAIN opts.ManifestSlices)}
        : wo \in OrdersOf(DOMAIN opts.ManifestSlices)}

\* The database of the older db package as init leaves it.
ChiselDB ==
    [Version |-> 1,
     Release |-> [Branch |-> "ubuntu-22.04",
                  Commit |-> "0x1db1c74ebe1e4ee9a888bc90ff7df388e651e018",
                  Arch |-> "amd64"],
     Contents |-> EmptyMap, Packages |-> EmptyMap, optional |-> EmptyMap]

\* prepSlices: the names of the slices, in their order.
prepSlices(slices) == [i \in 1..Len(slices) |-> SliceText(slices[i])]

\* computeMode: the permission bits in octal, padded to four digits.
RECURSIVE PadMode(_)
PadMode(mode) == IF Len(mode) < 4 THEN PadMode(Text("0") \o mode) ELSE mode

computeMode(perm) == PadMode(Digits(perm % 512, 8))

\* Database.ParseContentsAndPackages
ParseContentsAndPackages(db, params) ==
    [db EXCEPT
        !.Contents = [path \in DOMAIN params.PathOwner |->
                        [Slices |-> prepSlices(params.PathOwner[path]),
                         Digest |-> <<>>, Mode |-> <<>>]] @@ db.Contents,
        !.Packages = params.Packages @@ db.Packages,
        !.optional = params.Optional @@ db.optional]

\* Database.prepContents with db.Contents ranged over in the order paths:
\* target holds what os.Lstat finds under the target directory, and for each
\* path whether the Lstat of computeMode and the os.Open of computeDigest
\* succeed. A path that is not there is dropped at the end when it is
\* optional and is an error otherwise; what was written to the entries met
\* before an error stays.
RECURSIVE prepWalk(_, _, _, _, _)
prepWalk(db, target, paths, i, removePaths) ==
    IF i > Len(paths)
    THEN [err |-> NoErr,
          db |-> [db EXCEPT !.Contents = [path \in DOMAIN db.Contents \ removePaths |->
                                            db.Contents[path]]]]
    ELSE LET path == paths[i] IN
         IF path \notin DOMAIN target
         THEN IF path \in DOMAIN db.optional /\ db.optional[path]
              THEN prepWalk(db, target, paths, i + 1, removePaths \cup {path})
              ELSE [err |-> MkErr("lstat", <<>>, <<>>, "", path), db |-> db]
         ELSE IF ~target[path].Stat
         THEN [err |-> MkErr("mode", <<>>, <<>>, "", path),
               db |-> [db EXCEPT !.Contents[path].Mode = <<>>]]
         ELSE IF target[path].Mode.dir
         THEN prepWalk([db EXCEPT !.Contents[path].Mode = computeMode(target[path].Mode.perm)],
                       target, paths, i + 1, removePaths)
         ELSE IF ~target[path].Open
         THEN [err |-> MkErr("digest", <<>>, <<>>, "", path),
               db |-> [db EXCEPT !.Contents[path].Mode = computeMode(target[path].Mode.perm),
                                 !.Contents[path].Digest = <<>>]]
         ELSE prepWalk([db EXCEPT !.Contents[path].Mode = computeMode(target[path].Mode.perm),
                                  !.Contents[path].Digest = Text("0x") \o Text(target[path].Hash)],
                       target, paths, i + 1, removePaths)

\* Database.prepContents, for every order in which db.Contents is ranged
\* over.
prepContents(db, target) ==
    {prepWalk(db, target, paths, 1, {}) : paths \in OrdersOf(DOMAIN db.Contents)}

\* The outcome of a write of the older db package: the error returned, the
\* files left, and whether an error of Close was discarded.
WriteOut(e, files, fault) == [err |-> e, files |-> files, fault |-> fault]

\* zipFile: the archive is created, the database file is copied into it as
\* its one member and then removed; each step can fail, and the result of
\* zipWriter.Close() is not looked at.
zipFile(files, baseDir, zipPath, file) ==
    LET archive == JoinRoot(baseDir, <<zipPath>>)
        source == JoinRoot(baseDir, <<file>>)
        created == OpenFile(files, archive)
        zipped(whole) ==
            (archive :> [data |-> <<[name |-> file, content |-> files[source].data]>>,
                         complete |-> whole]) @@ files
        removed(fs) == [f \in DOMAIN fs \ {source} |-> fs[f]]
    IN  {WriteOut(MkErr("create", <<>>, <<>>, "", archive), files, FALSE),
         WriteOut(MkErr("open", <<>>, <<>>, "", source), created, FALSE),
         WriteOut(MkErr("copy", <<>>, <<>>, "", source), created, FALSE)}
        \cup {WriteOut(MkErr("remove", <<>>, <<>>, "", source), zipped(whole), ~whole) :
                whole \in BOOLEAN}
        \cup {WriteOut(NoErr, removed(zipped(whole)), ~whole) : whole \in BOOLEAN}

\* Database.Write: prepContents, the YAML document written to fileName in
\* the target directory (the fields yaml encodes), then zipFile.
DatabaseWrite(db, target, files, targetDir, zipName, fileName) ==
    UNION {IF prep.err # NoErr THEN {WriteOut(prep.err, files, FALSE)}
           ELSE LET targetPath == JoinRoot(targetDir, <<fileName>>)
                    doc == [Version |-> prep.db.Version, Release |-> prep.db.Release,
                            Contents |-> prep.db.Contents, Packages |-> prep.db.Packages]
                    encoded == (targetPath :> [data |-> <<doc>>, complete |-> TRUE]) @@ files
                IN  {WriteOut(MkErr("open", <<>>, <<>>, "", targetPath), files, FALSE),
                     WriteOut(MkErr("encode", <<>>, <<>>, "", targetPath),
                              OpenFile(files, targetPath), FALSE)}
                    \cup zipFile(encoded, targetDir, zipName, fileName)
           : prep \in prepContents(db, target)}

\* The names a caller hands to Database.Write: the archive and the document.
ZipName == "chisel.zip"
FileName == "chisel.yaml"

\* The file of the installed packages, inside the root.
sbomFilePath == <<"/", "var", "/", "lib", "/", "dpkg", "/", "status">>

sectionKeys ==
    <<"Package", "Architecture", "Version", "Multi-Arch", "Priority", "Section",
      "Source", "Origin", "Maintainer", "Original-Maintainer", "Bugs",
      "Installed-Size", "Depends", "Recommends", "Suggests", "Breaks", "Replaces",
      "Filename", "Size", "MD5sum", "SHA1", "SHA256", "SHA512", "Homepage",
      "Description", "Task", "Original-Vcs-Browser", "Original-Vcs-Git",
      "Description-md5">>

\* control.Section.Get: the value of the key, empty when the section has none.
SectionGet(section, key) == IF key \in DOMAIN section THEN section[key] ELSE ""

\* WriteSections: the lines of one section, the keys of sectionKeys that
\* have a value in their order, then an empty line.
SectionLines(section) ==
    LET keys == SelectSeq(sectionKeys, LAMBDA key : SectionGet(section, key) # "") IN
    [i \in 1..Len(keys) |-> <<keys[i], ": ", SectionGet(section, keys[i]), "\n">>]
        \o << <<"\n">> >>

RECURSIVE PackagesLines(_)
PackagesLines(sections) ==
    IF sections = <<>> THEN <<>>
    ELSE SectionLines(Head(sections)) \o PackagesLines(Tail(sections))

\* sbomDB.WriteSections: the file is created when it is not there and the
\* lines are appended to it through a buffered writer. A write that fails
\* while the buffer is emptied returns its error; the result of the
\* deferred Flush is not looked at. Either way the lines that reached the
\* file stay in it.
sbomWriteSections(db, files, rootdir) ==
    LET statusPath == JoinRoot(rootdir, sbomFilePath)
        old == IF statusPath \in DOMAIN files THEN files[statusPath].data ELSE <<>>
        lines == PackagesLines(db)
        appended(n) == (statusPath :> [data |-> old \o SubSeq(lines, 1, n),
                                   complete |-> n = Len(lines)]) @@ files
    IN  {WriteOut(MkErr("mkdir", <<>>, <<>>, "", statusPath), files, FALSE),
         WriteOut(MkErr("open", <<>>, <<>>, "", statusPath), files, FALSE)}
        \cup {WriteOut(MkErr("write", <<>>, <<>>, "", statusPath), appended(n), FALSE) :
                n \in 0..(Len(lines) - 1)}
        \cup {WriteOut(NoErr, appended(n), n < Len(lines)) : n \in 0..Len(lines)}

\* The sections handed to AddSection: the control fields of the package
\* cut, with or without a field that is not one of sectionKeys.
Sections ==
    {("Package" :> "pkg-1") @@ ("Version" :> "1.0") @@ ("Architecture" :> "amd64"),
     ("Package" :> "pkg-1") @@ ("Status" :> "install ok installed")}

\* The number of sections written to a file of installed packages.
Paragraphs(files, path) ==
    IF path \in DOMAIN files
    THEN Cardinality({i \in 1..Len(files[path].data) : files[path].data[i] = <<"\n">>})
    ELSE 0

\* The directory of the file cut, which Database.Write is told about too.
CutDir == <<"/", "dir", "/">>

\* The options cmdCut.Execute hands over after the slicer returned rep for
\* the selected slices.
CutOpts(slices, rep) ==
    [ManifestSlices |-> locateManifests(slices),
     PackageInfo |-> gatherPackageInfo(slices),
     Slices |-> [i \in 1..Len(slices) |-> SliceString(slices[i])],
     Report |-> rep]

\* The slicer starts with an empty report; the manifest path is declared
\* by none of the two slices cut, by the first or by both.
InitReport ==
    /\ \E gen \in 0..2 :
        release = MkRelease([n \in {1, 2} |->
                      MkPackage(n, 1 :> MkSlice(n, 1,
                          IF n <= gen THEN ManifestDir :> GenerateInfo ELSE EmptyMap))])
    /\ phase = "slicing"
    /\ Idle
    /\ overlap = NoOverlap

\* ReadRelease: validate the release that was read.
Validate ==
    /\ phase = "loaded"
    /\ \E out \in validate(release) :
        /\ err' = out.err
        /\ pathPriorities' = out.pathPriorities
    /\ phase' = "validated"
    /\ UNCHANGED <<installedPackages, overlap, walk, disk, release, conflict, resolution, selection, provider,
                   request, report, call, manifest>>

\* ResolveConflict on the declarations of one path.
Resolve ==
    /\ phase = "loaded"
    /\ \E path \in Paths :
        /\ Declaring(release, path) # {}
        /\ conflict' = ConflictOf(release, path)
        /\ \E out \in ResolveConflict(ConflictOf(release, path)) :
            /\ err' = out.err
            /\ resolution' = out.Priority
    /\ phase' = "resolved"
    /\ UNCHANGED <<installedPackages, overlap, walk, disk, release, pathPriorities, selection, provider,
                   request, report, call, manifest>>

\* Select on a release that ReadRelease returned.
SelectSlices ==
    /\ phase = "validated"
    /\ err = NoErr
    /\ \E keys \in KeySeqs :
        \E out \in Select(release, keys) :
            /\ err' = out.err
            /\ selection' = out.Slices
    /\ phase' = "selected"
    /\ UNCHANGED <<installedPackages, overlap, walk, disk, release, pathPriorities, conflict, resolution, provider,
                   request, report, call, manifest>>

\* Select applied to a release and a list of slice keys, as cmdCut.Execute
\* does after ReadRelease; the release need not have been validated.
SelectRequest ==
    /\ phase \in {"loaded", "validated"}
    /\ err = NoErr
    /\ \E keys \in KeySeqs :
        \E out \in Select(release, keys) :
            /\ err' = out.err
            /\ selection' = out.Slices
            /\ request' = [keys |-> keys, validated |-> phase = "validated"]
    /\ phase' = "selected"
    /\ UNCHANGED <<installedPackages, overlap, walk, disk, release, pathPriorities, conflict, resolution, provider,
                   report, call, manifest>>

\* The slicer reports an entry it created for a slice; an error ends the
\* run.
ReportAdd ==
    /\ phase = "slicing"
    /\ call.n < MaxCalls
    /\ \E slice \in ReportSlices, fsEntry \in FsEntries :
        \E out \in {Add(report, slice, fsEntry)} :
            /\ err' = out.err
            /\ report' = out.report
            /\ call' = [call EXCEPT !.op = "Add", !.n = @ + 1,
                                    !.slice = slice, !.entry = fsEntry]
            /\ phase' = IF out.err = NoErr THEN "slicing" ELSE "failed"
    /\ UNCHANGED <<installedPackages, overlap, walk, disk, release, pathPriorities, conflict, resolution, selection,
                   provider, request, manifest>>

\* The slicer reports an entry again after the mutation scripts ran.
ReportAddMutated ==
    /\ phase = "slicing"
    /\ call.n < MaxCalls
    /\ \E fsEntry \in MutatedEntries :
        \E out \in {AddMutated(report, fsEntry)} :
            /\ err' = out.err
            /\ report' = out.report
            /\ call' = [call EXCEPT
                   !.op = "AddMutated", !.n = @ + 1,
                   !.slice = <<NoPkg, 0>>, !.entry = fsEntry,
                   !.mutated = IF out.err = NoErr
                               THEN @ \cup {relativePath(report, fsEntry.Path,
                                                         fsEntry.Mode.dir).path}
                               ELSE @]
            /\ phase' = IF out.err = NoErr THEN "slicing" ELSE "failed"
    /\ UNCHANGED <<installedPackages, overlap, walk, disk, release, pathPriorities, conflict, resolution, selection,
                   provider, request, manifest>>

\* The manifest is generated from the report of a run without errors and
\* written.
GenerateManifest ==
    /\ phase = "slicing"
    /\ \E dbw \in generateManifest(ManifestOpts(release, report)) :
        manifest' = WriteTo(dbw)
    /\ phase' = "written"
    /\ UNCHANGED <<installedPackages, overlap, walk, disk, release, err, pathPriorities, conflict, resolution, selection,
                   provider, request, report, call>>

\* SelectPackage asked about every path and every package name.
Query ==
    /\ phase = "selected"
    /\ err = NoErr
    /\ provider' = [path \in Paths |->
                        {pkg \in PkgNames :
                            SelectPackage(pathPriorities, selection, path, pkg)}]
    /\ phase' = "queried"
    /\ UNCHANGED <<installedPackages, overlap, walk, disk, release, err, pathPriorities, conflict, resolution, selection,
                   request, report, call, manifest>>

\* The releases walked step by step: every package is absent, has one slice
\* declaring nothing, or has one slice declaring the path as a text file with
\* any 'prefer' (none, itself, another package, a package without a slice
\* definition file); or the first package has two slices declaring the path.
TextInfos == {TextInfo(p) : p \in {NoPkg} \cup PkgNames}

InitVisit ==
    /\ \E choices \in [PkgNames -> {<<"absent">>, <<"empty">>} \cup
                                   {<<"path", i>> : i \in TextInfos}],
          two \in {NoPkg, 1} :
        \/ two = NoPkg /\ release = ReleaseOf(choices, two, TextInfo(NoPkg), TextInfo(NoPkg))
        \/ /\ two # NoPkg
           /\ choices[two] = <<"absent">>
           /\ \E i \in TextInfos, j \in TextInfos : release = ReleaseOf(choices, two, i, j)
    /\ phase = "loaded"
    /\ Idle
    /\ overlap = NoOverlap

\* The slices validate has still to iterate: the slices not seen of the first
\* package, in the sorted order, that has such slices.
NextSlices(r, seen) ==
    LET left == {k \in UNION {{<<p, n>> : n \in DOMAIN r.Packages[p].Slices} :
                                 p \in DOMAIN r.Packages} : k \notin seen}
    IN  {k \in left : \A l \in left : k[1] <= l[1]}

\* validate takes the next slice in its loop and handles the path the slice
\* declares (the slices here declare one path at most).
VisitCall ==
    /\ walk.pc \in {"idle", "returned"}
    /\ walk.out = NoErr
    /\ \E key \in NextSlices(release, walk.seen) :
        LET new == release.Packages[key[1]].Slices[key[2]]
            w == [walk EXCEPT !.seen = walk.seen \cup {key}]
        IN  IF DOMAIN new.Contents = {}
            THEN walk' = visitReturn(w, NoErr)
            ELSE \E newPath \in DOMAIN new.Contents :
                    walk' = validateStep(w, new, newPath)
    /\ UNCHANGED <<installedPackages, release, phase, err, pathPriorities, conflict, resolution,
                   selection, provider, request, report, call, manifest, disk,
                   overlap>>

\* One iteration of the loop of visit.
VisitStep ==
    /\ walk.pc = "visit"
    /\ Len(walk.visits) <= MaxPkgs + 1
    /\ walk' \in visitStep(release, walk)
    /\ UNCHANGED <<installedPackages, release, phase, err, pathPriorities, conflict, resolution,
                   selection, provider, request, report, call, manifest, disk,
                   overlap>>

\* One iteration of the loop of findCycle.
FindCycleStep ==
    /\ walk.pc = "findCycle"
    /\ Len(walk.cycle) <= MaxPkgs + 1
    /\ walk' = findCycleStep(walk)
    /\ UNCHANGED <<installedPackages, release, phase, err, pathPriorities, conflict, resolution,
                   selection, provider, request, report, call, manifest, disk,
                   overlap>>

\* The paths handed to hasConflict: the root, or up to MaxSegs segments, the
\* first a name or a pattern and the others a name, "*" or "**".
MaxSegs == 2

FirstSegs ==
    {<<"d", "r">>, <<"r", "d">>, <<"d", "d">>, <<"d", "*">>, <<"*", "r">>, <<"d", "?">>, <<"*">>,
     <<"*", "*">>, <<"d", "*", "*">>, <<"d", "*", "*", "r">>}

MoreSegs == {<<"f">>, <<"*">>, <<"*", "*">>}

RECURSIVE PathsOf(_)
PathsOf(n) ==
    IF n = 1 THEN {<<"/">> \o s : s \in FirstSegs}
    ELSE {p \o <<"/">> \o s : p \in PathsOf(n - 1), s \in MoreSegs}

ConflictPaths == {<<"/">>} \cup UNION {PathsOf(n) : n \in 1..MaxSegs}

InitConflicts ==
    /\ release = MkRelease(EmptyMap)
    /\ phase = "loaded"
    /\ Idle
    /\ \E p \in ConflictPaths, q \in ConflictPaths :
        overlap = [p |-> p, q |-> q, prefix |-> <<>>, done |-> FALSE]

\* getConflicts compares two paths.
HasConflict ==
    /\ ~overlap.done
    /\ overlap' = [overlap EXCEPT !.prefix = hasConflict(overlap.p, overlap.q),
                                  !.done = TRUE]
    /\ UNCHANGED <<installedPackages, release, phase, err, pathPriorities, conflict, resolution,
                   selection, provider, request, report, call, manifest, walk, disk>>

\* The cut of the slices of one package after the slicer has run: both
\* slices declare the same file, and each of them declares any of the two
\* manifest paths; the first slice, the second or both are selected, and the
\* report holds the file for the slices selected.
CutFile == <<"/", "dir", "/", "file">>

InitCut ==
    /\ \E d1 \in SUBSET {ManifestDir, ManifestDir2},
          d2 \in SUBSET {ManifestDir, ManifestDir2},
          keys \in {<<1>>, <<2>>, <<1, 2>>} :
        /\ release = MkRelease(1 :> MkPackage(1,
               (1 :> MkSlice(1, 1, (CutFile :> CopyInfo(NoPkg)) @@
                                   [path \in d1 |-> GenerateInfo])) @@
               (2 :> MkSlice(1, 2, (CutFile :> CopyInfo(NoPkg)) @@
                                   [path \in d2 |-> GenerateInfo]))))
        /\ selection = [i \in 1..Len(keys) |-> release.Packages[1].Slices[keys[i]]]
        /\ report = LET added(rep, k) == Add(rep, <<1, k>>,
                                             FsEntry(FilePathRaw, FALSE, 420, "h1", 1, "")).report
                    IN  IF Len(keys) = 1 THEN added(NewReport(RootDir), keys[1])
                        ELSE added(added(NewReport(RootDir), keys[1]), keys[2])
    /\ phase = "sliced"
    /\ err = NoErr
    /\ pathPriorities = EmptyMap
    /\ conflict = NoConflict
    /\ resolution = EmptyMap
    /\ provider = NoProvider
    /\ request = NoRequest
    /\ call = NoCall
    /\ manifest = <<>>
    /\ walk = NoWalk
    /\ disk = NoDisk
    /\ installedPackages = <<>>
    /\ overlap = NoOverlap

\* cmdCut.Execute of cmd_cut.go after slicer.Run: findManifestDir, and when
\* it finds a directory gatherPackageInfo, which can fail, and GenerateDB up
\* to the call of DBWriter.WriteDB.
Execute ==
    /\ phase = "sliced"
    /\ \/ /\ findManifestDir(selection) = {}
          /\ phase' = "done"
          /\ err' = NoErr
          /\ disk' = [disk EXCEPT !.by = "Execute"]
       \/ /\ findManifestDir(selection) # {}
          /\ phase' = "failed"
          /\ err' = MkErr("packageinfo", <<>>, <<>>, "", <<>>)
          /\ disk' = [disk EXCEPT !.by = "Execute"]
       \/ \E manifestDir \in findManifestDir(selection) :
          \E dbw \in GenerateDB(CutOpts(selection, report)) :
            LET path == JoinRoot(RootDir, manifestDir) \o Slash \o <<dbFile>> IN
            /\ phase' = "writing"
            /\ err' = NoErr
            /\ disk' = StartJob([disk EXCEPT
                            !.jobs = <<[paths |-> <<path>>, lines |-> WriterLines(dbw)]>>,
                            !.by = "Execute"])
    /\ UNCHANGED <<installedPackages, release, pathPriorities, conflict, resolution, selection,
                   provider, request, report, call, manifest, walk, overlap>>

\* generateDB of db.go up to the call of WriteDB: one writer for all paths.
GenerateDBs ==
    /\ phase = "sliced"
    /\ \E out \in generateDB(CutOpts(selection, report)) :
        LET filePaths == [i \in 1..Len(out.dbPaths) |-> JoinRoot(RootDir, out.dbPaths[i])] IN
        disk' = StartJob([disk EXCEPT
                    !.jobs = <<[paths |-> filePaths, lines |-> WriterLines(out.dbw)]>>,
                    !.by = "generateDB"])
    /\ phase' = "writing"
    /\ UNCHANGED <<installedPackages, release, err, pathPriorities, conflict, resolution, selection,
                   provider, request, report, call, manifest, walk, overlap>>

\* GenerateDB of db.go up to the first call of DBWriter.WriteDB: one writer
\* for each manifest path, written one after the other; nothing is written
\* when there is no manifest path.
GenerateDBPerWriter ==
    /\ phase = "sliced"
    /\ \E writers \in GenerateDBEach(RootDir, CutOpts(selection, report)) :
        /\ disk' = StartJob([disk EXCEPT
                        !.jobs = [i \in 1..Len(writers) |->
                                    [paths |-> <<writers[i].path>>,
                                     lines |-> WriterLines(writers[i].dbw)]],
                        !.by = "GenerateDB"])
        /\ phase' = IF writers = <<>> THEN "done" ELSE "writing"
    /\ UNCHANGED <<installedPackages, release, err, pathPriorities, conflict, resolution, selection,
                   provider, request, report, call, manifest, walk, overlap>>

\* Database.Write of the older db package after a cut: the paths of the
\* report and the directory of the file with their slices, any of them
\* optional, the packages cut, and a target directory in which any of the
\* paths may be gone or may not be read.
Write ==
    /\ phase = "sliced"
    /\ LET paths == DOMAIN report.Entries \cup {CutDir}
           slicesOf(path) ==
               IF path \in DOMAIN report.Entries THEN OrdersOf(report.Entries[path].Slices)
               ELSE {[i \in 1..Len(selection) |-> SliceString(selection[i])]}
           entryOf(path) ==
               IF path \in DOMAIN report.Entries THEN report.Entries[path]
               ELSE FsEntry(CutDir, TRUE, 493, "", 0, "")
       IN
       \E optional \in [paths -> BOOLEAN],
          fate \in [paths -> {"there", "gone", "nostat", "noopen"}],
          owner \in {f \in [paths -> UNION {slicesOf(path) : path \in paths}] :
                        \A path \in paths : f[path] \in slicesOf(path)} :
        LET infos == gatherPackageInfo(selection)
            params == [PathOwner |-> owner, Optional |-> optional,
                       Packages |-> [name \in {infos[i].Name : i \in 1..Len(infos)} |->
                                        infos[CHOOSE i \in 1..Len(infos) : infos[i].Name = name].Version]]
            target == [path \in {q \in paths : fate[q] # "gone"} |->
                        [Mode |-> entryOf(path).Mode, Hash |-> entryOf(path).Hash,
                         Stat |-> fate[path] # "nostat", Open |-> fate[path] # "noopen"]]
        IN  \E out \in DatabaseWrite(ParseContentsAndPackages(ChiselDB, params), target,
                                     disk.files, RootDir, ZipName, FileName) :
                /\ phase' = IF out.err = NoErr THEN "done" ELSE "failed"
                /\ err' = out.err
                /\ disk' = [disk EXCEPT !.files = out.files, !.by = "Write",
                                        !.fault = out.fault]
    /\ UNCHANGED <<installedPackages, release, pathPriorities, conflict, resolution,
                   selection, provider, request, report, call, manifest, walk, overlap>>

\* sbomDB.AddSection: one more installed package.
AddSection ==
    /\ phase = "sliced"
    /\ Len(installedPackages) < MaxSections
    /\ \E section \in Sections :
        installedPackages' = Append(installedPackages, section)
    /\ UNCHANGED <<release, phase, err, pathPriorities, conflict, resolution, selection,
                   provider, request, report, call, manifest, walk, disk, overlap>>

\* sbomDB.WriteSections(rootdir) after a cut, and again on a target
\* directory that already has the file with all the lines written before.
WriteSections ==
    /\ \/ phase = "sliced"
       \/ /\ phase = "done"
          /\ disk.by = "WriteSections"
          /\ ~disk.fault
          /\ Paragraphs(disk.files, JoinRoot(RootDir, sbomFilePath)) < MaxSections
    /\ \E out \in sbomWriteSections(installedPackages, disk.files, RootDir) :
        /\ phase' = IF out.err = NoErr THEN "done" ELSE "failed"
        /\ err' = out.err
        /\ disk' = [disk EXCEPT !.files = out.files, !.by = "WriteSections",
                                !.fault = disk.fault \/ out.fault]
    /\ UNCHANGED <<installedPackages, release, pathPriorities, conflict, resolution,
                   selection, provider, request, report, call, manifest, walk, overlap>>

\* WriteDB: os.MkdirAll and os.OpenFile for the next path of the writer.
OpenStep ==
    /\ phase = "writing"
    /\ disk.pc = "open"
    /\ LET path == disk.jobs[1].paths[Len(disk.open) + 1] IN
       disk' = [disk EXCEPT !.files = OpenFile(disk.files, path),
                            !.open = Append(disk.open, path),
                            !.pc = IF Len(disk.open) + 1 = Len(disk.jobs[1].paths)
                                   THEN "write" ELSE "open"]
    /\ UNCHANGED <<installedPackages, release, phase, err, pathPriorities, conflict, resolution, selection,
                   provider, request, report, call, manifest, walk, overlap>>

\* os.MkdirAll or os.OpenFile fails for the next path: WriteDB returns the
\* error; the files opened before stay empty, the others are not touched.
OpenFail ==
    /\ phase = "writing"
    /\ disk.pc = "open"
    /\ phase' = "failed"
    /\ err' = MkErr("open", <<>>, <<>>, "", <<>>)
    /\ disk' = [disk EXCEPT !.jobs = <<>>, !.open = <<>>, !.pc = ""]
    /\ UNCHANGED <<installedPackages, release, pathPriorities, conflict, resolution, selection,
                   provider, request, report, call, manifest, walk, overlap>>

\* writer.WriteTo(w) returns without error: the lines have gone through the
\* encoder to every open file.
WriteStep ==
    /\ phase = "writing"
    /\ disk.pc = "write"
    /\ disk' = [SendTo(disk, Len(disk.open), FALSE) EXCEPT !.pc = "close"]
    /\ UNCHANGED <<installedPackages, release, phase, err, pathPriorities, conflict, resolution, selection,
                   provider, request, report, call, manifest, walk, overlap>>

\* writer.WriteTo(w) fails, or the command is interrupted, after the lines
\* have reached some of the open files: WriteDB returns the error and the
\* files stay as they are.
WriteFail ==
    /\ phase = "writing"
    /\ disk.pc = "write"
    /\ \E n \in 0..(Len(disk.open) - 1) :
        disk' = [SendTo(disk, n, FALSE) EXCEPT !.jobs = <<>>, !.open = <<>>, !.pc = ""]
    /\ phase' = "failed"
    /\ err' = MkErr("write", <<>>, <<>>, "", <<>>)
    /\ UNCHANGED <<installedPackages, release, pathPriorities, conflict, resolution, selection,
                   provider, request, report, call, manifest, walk, overlap>>

\* The deferred w.Close() writes the end of the stream to every open file,
\* the files are closed and WriteDB returns nil; the next writer follows.
CloseStep ==
    /\ phase = "writing"
    /\ disk.pc = "close"
    /\ disk' = NextJob(SendTo(disk, Len(disk.open), TRUE))
    /\ phase' = IF Len(disk.jobs) > 1 THEN "writing" ELSE "done"
    /\ UNCHANGED <<installedPackages, release, err, pathPriorities, conflict, resolution, selection,
                   provider, request, report, call, manifest, walk, overlap>>

\* The deferred w.Close() fails after the end of the stream has reached
\* some of the open files: its error is discarded and WriteDB returns nil.
CloseFail ==
    /\ phase = "writing"
    /\ disk.pc = "close"
    /\ \E n \in 0..(Len(disk.open) - 1) :
        disk' = NextJob([SendTo(disk, n, TRUE) EXCEPT !.fault = TRUE])
    /\ phase' = IF Len(disk.jobs) > 1 THEN "writing" ELSE "done"
    /\ UNCHANGED <<installedPackages, release, err, pathPriorities, conflict, resolution, selection,
                   provider, request, report, call, manifest, walk, overlap>>

Next == Validate \/ Resolve \/ SelectSlices \/ Query

Spec == Init /\ [][Next]_vars

\* Reading and selecting from the releases with patterns.
NextGlob == Validate \/ SelectSlices

SpecGlob == InitGlob /\ [][NextGlob]_vars

\* A run of the slicer and the manifest written after it.
NextReport == ReportAdd \/ ReportAddMutated \/ GenerateManifest

SpecReport == InitReport /\ [][NextReport]_vars

\* Reading and selecting from the releases with essentials.
NextSelect == Validate \/ SelectRequest

SpecSelect == InitEss /\ [][NextSelect]_vars

\* The comparisons of two paths by hasConflict.
NextConflicts == HasConflict

SpecConflicts == InitConflicts /\ [][NextConflicts]_vars

\* The manifests written after a cut, by the routines of cmd_cut.go and of
\* db.go, one step of the write at a time.
NextCut ==
    \/ Execute \/ GenerateDBs \/ GenerateDBPerWriter \/ Write
    \/ AddSection \/ WriteSections
    \/ OpenStep \/ OpenFail \/ WriteStep \/ WriteFail \/ CloseStep \/ CloseFail

SpecCut == InitCut /\ [][NextCut]_vars

\* validate's loop and the calls of visit it makes, one iteration at a time.
NextVisit == VisitCall \/ VisitStep \/ FindCycleStep

SpecVisit == InitVisit /\ [][NextVisit]_vars

\* visit and findCycle run to their end without waiting for anything: a loop
\* that can make an iteration makes it.
SpecVisitFair == SpecVisit /\ WF_vars(VisitStep) /\ WF_vars(FindCycleStep)

----------------------------------------------------------------------------
(* Vocabulary of the properties *)

\* The prefer relation of path: u -> v iff a slice of u declares path with
\* prefer v.
PreferEdges(r, path) ==
    {e \in Declaring(r, path) \X PkgNames :
        \E n \in DOMAIN r.Packages[e[1]].Slices :
            LET s == r.Packages[e[1]].Slices[n] IN
            path \in DOMAIN s.Contents /\ s.Contents[path].Prefer = e[2]}

\* The PathInfos the slices of pkg declare for path.
InfosOf(r, path, pkg) ==
    {r.Packages[pkg].Slices[n].Contents[path] :
        n \in {m \in DOMAIN r.Packages[pkg].Slices :
                  path \in DOMAIN r.Packages[pkg].Slices[m].Contents}}

\* The targets of the edges that leave S, added to S until nothing is new.
RECURSIVE Closure(_, _)
Closure(edges, S) ==
    LET T == S \cup {e[2] : e \in {d \in edges : d[1] \in S}} IN
    IF T = S THEN S ELSE Closure(edges, T)

\* The prefer relation of path has a cycle (a self-loop included).
HasCycle(r, path) ==
    \E e \in PreferEdges(r, path) :
        e[1] \in Closure(PreferEdges(r, path), {e[2]})

\* The prefer graph over the packages declaring path is connected.
Connected(r, path) ==
    LET V == Declaring(r, path)
        E == {e \in PreferEdges(r, path) : e[2] \in V}
        both == E \cup {<<e[2], e[1]>> : e \in E}
    IN  \A u \in V : Closure(both, {u}) = V

\* The packages of path with in-degree 0.
Heads(r, path) ==
    {v \in Declaring(r, path) : ~ \E e \in PreferEdges(r, path) : e[2] = v}

\* The packages of path that declare no prefer.
Tails(r, path) ==
    {v \in Declaring(r, path) : ~ \E e \in PreferEdges(r, path) : e[1] = v}

\* The length of the longest prefer path that ends in v.
RECURSIVE Depth(_, _, _)
Depth(edges, v, fuel) ==
    LET preds == {e[1] : e \in {d \in edges : d[2] = v}} IN
    IF fuel = 0 \/ preds = {} THEN 0
    ELSE LET ds == {Depth(edges, u, fuel - 1) : u \in preds} IN
         1 + CHOOSE d \in ds : \A x \in ds : x <= d

\* All declarations of path by the packages of S are content-equivalent and
\* none is of kind copy or glob.
Equivalent(r, path, S) ==
    \A a \in S, b \in S :
        \A i \in InfosOf(r, path, a), j \in InfosOf(r, path, b) :
            SameContent(i, j) /\ i.Kind \notin {"copy", "glob"}

\* The documented shape of a prefer graph: the heads are equivalent when
\* there are several, they all prefer the same package t, and the other
\* packages form one chain from t to the only package without prefer.
DocumentedShape(r, path) ==
    LET V == Declaring(r, path)
        E == PreferEdges(r, path)
        H == Heads(r, path)
        rest == V \ H
    IN  /\ H # {}
        /\ Cardinality(H) > 1 => Equivalent(r, path, H)
        /\ \A v \in V : Cardinality({e \in E : e[1] = v}) <= 1
        /\ \E t \in rest :
              /\ \A h \in H : <<h, t>> \in E
              /\ rest = Closure(E, {t})
        /\ Cardinality(rest \cap Tails(r, path)) = 1

\* The packages that have a slice in the selection.
SelectedPkgs == {selection[i].Package : i \in 1..Len(selection)}

\* The selected packages that are ranked for path.
RankedSelected(path) ==
    IF path \in DOMAIN pathPriorities
    THEN SelectedPkgs \cap DOMAIN pathPriorities[path]
    ELSE {}

\* The highest-ranked contenders of path present in the selection.
TopSelected(path) ==
    {p \in RankedSelected(path) :
        \A q \in RankedSelected(path) :
            pathPriorities[path][q] <= pathPriorities[path][p]}

----------------------------------------------------------------------------
(* Properties of SelectPackage *)

\* C1, as stated: for every Selection and every path, at most one package
\* pkg has SelectPackage(path, pkg) = true.
C1_AtMostOneEveryPath ==
    phase = "queried" => \A path \in Paths : Cardinality(provider[path]) <= 1

\* C1, amended: for every Selection and every path that is in the priority
\* map, at most one package with a slice in the selection has
\* SelectPackage(path, pkg) = true.
C1_AtMostOneSelectedRanked ==
    phase = "queried" =>
        \A path \in Paths \cap DOMAIN pathPriorities :
            Cardinality(provider[path] \cap SelectedPkgs) <= 1

\* Two ranked packages are selected and one of them is chosen.
C1_Witness ==
    /\ phase = "queried"
    /\ CfgPath \in DOMAIN pathPriorities
    /\ Cardinality(RankedSelected(CfgPath)) >= 2
    /\ Cardinality(provider[CfgPath] \cap SelectedPkgs) = 1

\* C2: for a path in the priority map and a selection with at least one
\* selected package ranked for the path, SelectPackage is true for the
\* selected package with the highest rank and false for every other package
\* that has a slice in the selection.
C2_HighestSelectedWins ==
    phase = "queried" =>
        \A path \in Paths :
            RankedSelected(path) # {} =>
                /\ Cardinality(TopSelected(path)) = 1
                /\ provider[path] \cap SelectedPkgs = TopSelected(path)

\* A chain of three packages of which the first and the last are selected:
\* the last one is chosen.
C2_Witness ==
    /\ phase = "queried"
    /\ CfgPath \in DOMAIN pathPriorities
    /\ Cardinality(DOMAIN pathPriorities[CfgPath]) = 3
    /\ \E a, c \in RankedSelected(CfgPath) :
         /\ RankedSelected(CfgPath) = {a, c}
         /\ pathPriorities[CfgPath][a] = 1
         /\ pathPriorities[CfgPath][c] = 3
         /\ provider[CfgPath] \cap SelectedPkgs = {c}

\* C3: for a path in the priority map, every contending package other than
\* the highest-ranked contender present in the selection gets
\* SelectPackage = false, whether or not it has a slice in the selection.
C3_OtherContendersFalse ==
    phase = "queried" =>
        \A path \in Paths :
            RankedSelected(path) # {} =>
                provider[path] \cap Declaring(release, path) \subseteq TopSelected(path)

----------------------------------------------------------------------------
(* Properties of Release.validate and ResolveConflict *)

\* C4: validate rejects every release in which, for some path, a declaring
\* package has a prefer and the prefer graph over the packages declaring the
\* path has more than one connected component.
C4_DisconnectedRejected ==
    phase = "validated" =>
        \A path \in Paths :
            (PreferEdges(release, path) # {} /\ ~Connected(release, path))
                => err # NoErr

\* C5: ResolveConflict and validate both reject any path whose prefer
\* relation contains a cycle, a package that prefers itself included.
C5_CyclesRejected ==
    /\ phase = "validated" =>
         \A path \in Paths : HasCycle(release, path) => err # NoErr
    /\ phase = "resolved" =>
         (HasCycle(release, conflict.Path) => err # NoErr)

\* validate has reported a prefer cycle through three packages.
C5_Witness ==
    /\ phase = "validated"
    /\ HasCycle(release, CfgPath)
    /\ err.kind = "cycle"
    /\ Len(err.names) = 3

\* C6: whenever ResolveConflict succeeds on a conflict with at least one
\* prefer edge, the graph has the documented shape.
C6_AcceptedHasDocumentedShape ==
    (/\ phase = "resolved"
     /\ err = NoErr
     /\ PreferEdges(release, conflict.Path) # {})
        => DocumentedShape(release, conflict.Path)

\* C7: when ResolveConflict succeeds every head has priority 0 and the i-th
\* package of the chain after the heads has priority i; several equivalent
\* heads that prefer the same package are accepted.
C7_PrioritiesFollowChain ==
    phase = "resolved" =>
        LET path == conflict.Path
            V == Declaring(release, path)
            E == {e \in PreferEdges(release, path) : e[2] \in V}
        IN  /\ err = NoErr =>
                /\ DOMAIN resolution = V
                /\ \A v \in V : resolution[v] = Depth(E, v, Cardinality(V))
            /\ (/\ DocumentedShape(release, path)
                /\ Cardinality(Heads(release, path)) > 1
                /\ \A v \in V : Cardinality(InfosOf(release, path, v)) = 1)
                   => err = NoErr

\* Two equivalent heads prefer the same package: priorities 0, 0 and 1.
C7_Witness ==
    /\ phase = "resolved"
    /\ err = NoErr
    /\ Cardinality(Heads(release, conflict.Path)) = 2
    /\ \A h \in Heads(release, conflict.Path) : resolution[h] = 0
    /\ \E t \in DOMAIN resolution : resolution[t] = 1

\* C8: after validate succeeds, for every path in the priority map the
\* ranks are positive, the head of the chain has rank 1, every prefer edge
\* u -> v has rank(v) = rank(u) + 1, the ranks are pairwise distinct and the
\* finally preferred package has the highest rank.
C8_RanksFollowPrefer ==
    (phase = "validated" /\ err = NoErr) =>
        \A path \in DOMAIN pathPriorities :
            LET ranks == pathPriorities[path]
                E == PreferEdges(release, path)
            IN  /\ \A p \in DOMAIN ranks : ranks[p] > 0
                /\ \E h \in Heads(release, path) : h \in DOMAIN ranks
                /\ \A h \in Heads(release, path) \cap DOMAIN ranks : ranks[h] = 1
                /\ \A e \in E :
                     /\ e[1] \in DOMAIN ranks /\ e[2] \in DOMAIN ranks
                     /\ ranks[e[2]] = ranks[e[1]] + 1
                /\ \A p \in DOMAIN ranks, q \in DOMAIN ranks :
                     ranks[p] = ranks[q] => p = q
                /\ \E t \in Tails(release, path) : t \in DOMAIN ranks
                /\ \A t \in Tails(release, path) \cap DOMAIN ranks :
                     \A p \in DOMAIN ranks : ranks[p] <= ranks[t]

\* A chain of three packages has been ranked 1, 2, 3.
C8_Witness ==
    /\ phase = "validated"
    /\ err = NoErr
    /\ CfgPath \in DOMAIN pathPriorities
    /\ Cardinality(DOMAIN pathPriorities[CfgPath]) = 3
    /\ \E t \in Tails(release, CfgPath) : pathPriorities[CfgPath][t] = 3

\* C9: after validate succeeds a path is a key of the priority map iff a
\* slice declaring it has a non-empty prefer; for a path that is not a key
\* SelectPackage returns true for any package.
C9_RankedIffPrefer ==
    /\ (phase = "validated" /\ err = NoErr) =>
         \A path \in Paths :
            path \in DOMAIN pathPriorities <=> PreferEdges(release, path) # {}
    /\ phase = "queried" =>
         \A path \in Paths :
            /\ path \in DOMAIN pathPriorities <=> PreferEdges(release, path) # {}
            /\ path \notin DOMAIN pathPriorities => provider[path] = PkgNames

\* A path two packages declare without prefer is not in the map, and every
\* package is answered true.
C9_Witness ==
    /\ phase = "queried"
    /\ Cardinality(Declaring(release, CfgPath)) >= 2
    /\ PreferEdges(release, CfgPath) = {}
    /\ CfgPath \notin DOMAIN pathPriorities
    /\ provider[CfgPath] = PkgNames

\* C10: a path declared by two or more packages, none with prefer, is
\* accepted only if all declarations are content-equivalent and none is of
\* kind copy or glob; otherwise the call fails, with "slices X and Y
\* conflict on <path>" when no other path is declared.
C10_NoPreferNeedsEquivalence ==
    /\ phase = "validated" =>
         \A path \in Paths :
            (/\ Cardinality(Declaring(release, path)) >= 2
             /\ PreferEdges(release, path) = {}
             /\ ~Equivalent(release, path, Declaring(release, path)))
               => /\ err # NoErr
                  /\ (\A q \in Paths \ {path} : Declaring(release, q) = {})
                        => err.kind = "conflict" /\ err.path = path
    /\ phase = "resolved" =>
         ((/\ Cardinality(Declaring(release, conflict.Path)) >= 2
           /\ PreferEdges(release, conflict.Path) = {}
           /\ ~Equivalent(release, conflict.Path,
                          Declaring(release, conflict.Path)))
            => err.kind = "conflict" /\ err.path = conflict.Path)

\* Two packages declare the same glob without prefer: validate reports the
\* conflict between their slices.
C10_Witness ==
    /\ phase = "validated"
    /\ Cardinality(Declaring(release, GlobDir)) >= 2
    /\ Cardinality(Declaring(release, CfgPath)) <= 1
    /\ err.kind = "conflict"
    /\ err.path = GlobDir

----------------------------------------------------------------------------
(* Same-package declarations *)

\* The pairs (s1, s2), s1 < s2, of slices of one package of r that both
\* declare path and differ in kind, info, mode, mutable, generate or prefer.
SamePkgDiffer(r, path) ==
    {pair \in (PkgNames \X SliceNames) \X (PkgNames \X SliceNames) :
        /\ pair[1][1] = pair[2][1]
        /\ pair[1][2] < pair[2][2]
        /\ pair[1][1] \in DOMAIN r.Packages
        /\ LET slices == r.Packages[pair[1][1]].Slices IN
           /\ {pair[1][2], pair[2][2]} \subseteq DOMAIN slices
           /\ path \in DOMAIN slices[pair[1][2]].Contents
           /\ path \in DOMAIN slices[pair[2][2]].Contents
           /\ LET a == slices[pair[1][2]].Contents[path]
                  b == slices[pair[2][2]].Contents[path]
              IN  \/ a.Kind # b.Kind
                  \/ a.Info # b.Info
                  \/ a.Mode # b.Mode
                  \/ a.Mutable # b.Mutable
                  \/ a.Generate # b.Generate
                  \/ a.Prefer # b.Prefer}

\* C11: two slices of one package may declare the same path only if they
\* agree on kind, info, mode, mutable, generate and prefer.  If they differ,
\* ResolveConflict fails with "slices s1 and s2 conflict on <path>", s1 < s2,
\* and validate rejects the release; a conflict between two slices of one
\* package is reported only for slices that differ, smaller slice first.
C11_SamePackageAgree ==
    /\ phase = "resolved" =>
         IF SamePkgDiffer(release, conflict.Path) # {}
         THEN /\ err.kind = "conflict"
              /\ err.path = conflict.Path
              /\ <<err.s1, err.s2>> \in SamePkgDiffer(release, conflict.Path)
         ELSE ~(err.kind = "conflict" /\ err.s1[1] = err.s2[1])
    /\ phase = "validated" =>
         /\ (\E path \in Paths : SamePkgDiffer(release, path) # {}) => err # NoErr
         /\ (err.kind = "conflict" /\ err.s1[1] = err.s2[1])
               => <<err.s1, err.s2>> \in SamePkgDiffer(release, err.path)

\* Two slices of the first package declare the same text path and differ
\* only in prefer: ResolveConflict reports them, the first slice first.
C11_Witness ==
    /\ phase = "resolved"
    /\ err.kind = "conflict"
    /\ err.s1 = <<1, 1>>
    /\ err.s2 = <<1, 2>>
    /\ LET a == release.Packages[1].Slices[1].Contents[conflict.Path]
           b == release.Packages[1].Slices[2].Contents[conflict.Path]
       IN  SameContent(a, b) /\ a.Prefer # b.Prefer

----------------------------------------------------------------------------
(* Patterns against other path keys *)

\* The path keys the slice with this key declares in r.
Declared(r, key) == DOMAIN r.Packages[key[1]].Slices[key[2]].Contents

\* The slice keys defined in r.
SliceKeysOf(r) ==
    {k \in (DOMAIN r.Packages) \X SliceNames : k[2] \in DOMAIN r.Packages[k[1]].Slices}

\* <<x, g, y, k>>: slice x declares the glob or generate pattern g, slice y
\* declares the different path key k, and g matches k.
PatternMatches(r) ==
    {m \in SliceKeysOf(r) \X {GlobDir} \X SliceKeysOf(r) \X {FilePath, GlobDir, CfgPath} :
        /\ m[2] \in Declared(r, m[1])
        /\ SliceOf(r, m[1]).Contents[m[2]].Kind \in {"glob", "generate"}
        /\ m[4] \in Declared(r, m[3])
        /\ m[4] # m[2]
        /\ GlobPath(m[4], m[2])}

\* C12: validate fails whenever a glob or generate pattern of one package
\* matches a different path key of another package, and an error "slices X
\* and Y conflict on P and Q" names the smaller slice first with its path.
C12_PatternAcrossPackagesRejected ==
    phase = "validated" =>
        /\ (\E m \in PatternMatches(release) : m[1][1] # m[3][1]) => err # NoErr
        /\ err.kind = "globconflict" =>
              /\ err.s1 = err.s2 \/ TupleLess(err.s1, err.s2)
              /\ err.path \in Declared(release, err.s1)
              /\ err.names[1] \in Declared(release, err.s2)

\* The releases of one package in which one slice declares a concrete copy
\* path and another slice declares a generate: manifest pattern matching it.
SamePkgManifest(r) ==
    /\ Cardinality(DOMAIN r.Packages) = 1
    /\ \E x \in SliceKeysOf(r), y \in SliceKeysOf(r) :
        /\ x # y
        /\ FilePath \in Declared(r, x)
        /\ SliceOf(r, x).Contents[FilePath].Kind = "copy"
        /\ GlobDir \in Declared(r, y)
        /\ SliceOf(r, y).Contents[GlobDir].Generate = "manifest"

\* C13: when one slice of a package declares a concrete copy path and
\* another slice of the same package declares a generate: manifest pattern
\* that matches it, the release loads without error.
C13_SamePackageManifestLoads ==
    (phase = "validated" /\ SamePkgManifest(release)) => err = NoErr

----------------------------------------------------------------------------
(* Essentials *)

\* The slice keys the slices with keys in S list as essential.
EssentialsOf(r, S) ==
    UNION {SeqRange(SliceOf(r, k).Essential) : k \in S \cap SliceKeysOf(r)}

\* S and everything reachable from S through essentials.
RECURSIVE EssClosure(_, _)
EssClosure(r, S) ==
    LET T == S \cup EssentialsOf(r, S) IN
    IF T = S THEN S ELSE EssClosure(r, T)

\* C16: when Select succeeds, the Selection holds every requested slice and
\* every slice reachable from them through essentials, each exactly once.
C16_SelectionClosed ==
    (phase = "selected" /\ err = NoErr) =>
        LET sel == {SliceString(selection[i]) : i \in 1..Len(selection)} IN
        /\ EssClosure(release, SeqRange(request.keys)) \subseteq sel
        /\ Cardinality(sel) = Len(selection)
        /\ \A i \in 1..Len(selection) :
              selection[i] = SliceOf(release, SliceString(selection[i]))

\* One slice is requested; it reaches a second slice only through a third:
\* all three are selected.
C16_Witness ==
    /\ phase = "selected"
    /\ err = NoErr
    /\ Len(request.keys) = 1
    /\ Len(selection) = 3
    /\ \E k \in SliceKeysOf(release) :
        /\ k \notin EssentialsOf(release, SeqRange(request.keys))
        /\ k \notin SeqRange(request.keys)
        /\ \E i \in 1..3 : SliceString(selection[i]) = k

\* C17: every release validate accepts has an acyclic essential graph, a
\* slice that lists itself as essential included.
C17_EssentialsAcyclic ==
    (phase = "validated" /\ err = NoErr) =>
        \A k \in SliceKeysOf(release) :
            k \notin EssClosure(release, EssentialsOf(release, {k}))

\* C18: Select fails without a Selection when a requested key names a
\* package that is not defined ("slices of package ... not found"), a slice
\* that is not defined ("slice ... not found"), or when a slice reached from
\* the request lists an essential that is not defined ("... requires ...,
\* but slice is missing").
C18_UndefinedRejected ==
    phase = "selected" =>
        LET keys == request.keys
            bad == {i \in 1..Len(keys) : keys[i] \notin SliceKeysOf(release)}
            missing == EssClosure(release, SeqRange(keys)) \ SliceKeysOf(release)
        IN  /\ bad # {} =>
                LET i == CHOOSE x \in bad : \A y \in bad : x <= y IN
                /\ selection = <<>>
                /\ err.s1 = keys[i]
                /\ err.kind = IF keys[i][1] \in DOMAIN release.Packages
                              THEN "slicenotfound" ELSE "pkgnotfound"
            /\ (bad = {} /\ missing # {}) =>
                /\ selection = <<>>
                /\ err.kind = "missing"
                /\ err.s2 \in missing
                /\ err.s1 \in EssClosure(release, SeqRange(keys)) \ missing
                /\ err.s2 \in EssentialsOf(release, {err.s1})
            /\ err.kind \in {"pkgnotfound", "slicenotfound"} => bad # {}
            /\ err.kind = "missing" => missing # {}

\* The requested slice is defined and lists only defined essentials, but one
\* of those lists an essential of a package that is not defined.
C18_Witness ==
    /\ phase = "selected"
    /\ err.kind = "missing"
    /\ selection = <<>>
    /\ err.s1 \notin SeqRange(request.keys)
    /\ err.s2[1] \notin DOMAIN release.Packages

----------------------------------------------------------------------------
(* Report *)

\* The root-relative key of the entry of the last call.
CallKey(r, c) == relativePath(r, c.entry.Path, c.entry.Mode.dir).path

\* C14: Report.Add(slice, e) called with an entry under the root: the key
\* ends in "/" exactly when e is a directory; when no entry exists at the
\* key one is inserted with slice set {slice} and e's mode, hash, size and
\* link; when an entry exists the call succeeds exactly when mode, link,
\* size and hash are all equal, and then only adds slice to its slice set.
C14_AddInsertsOrMerges ==
    [][(call'.op = "Add" /\ call'.n = call.n + 1
            /\ HasPrefix(call'.entry.Path, report.Root)) =>
        LET e == call'.entry
            key == CallKey(report, call')
        IN  /\ (key[Len(key)] = "/") <=> e.Mode.dir
            /\ IF key \notin DOMAIN report.Entries
               THEN /\ err' = NoErr
                    /\ DOMAIN report'.Entries = DOMAIN report.Entries \cup {key}
                    /\ \A k \in DOMAIN report.Entries :
                          report'.Entries[k] = report.Entries[k]
                    /\ report'.Entries[key].Slices = {call'.slice}
                    /\ report'.Entries[key].Mode = e.Mode
                    /\ report'.Entries[key].Hash = e.Hash
                    /\ report'.Entries[key].Size = e.Size
                    /\ report'.Entries[key].Link = e.Link
               ELSE LET old == report.Entries[key]
                        same == /\ old.Mode = e.Mode
                                /\ old.Link = e.Link
                                /\ old.Size = e.Size
                                /\ old.Hash = e.Hash
                    IN  /\ (err' = NoErr) <=> same
                        /\ IF same
                           THEN report' = [report EXCEPT
                                   !.Entries[key].Slices = @ \cup {call'.slice}]
                           ELSE report' = report
       ]_vars

\* A second slice reported the same file: the entry lists both slices.
C14_Witness ==
    /\ call.op = "Add"
    /\ err = NoErr
    /\ \E k \in DOMAIN report.Entries :
        /\ k = CallKey(report, call)
        /\ Cardinality(report.Entries[k].Slices) = 2
        /\ ~call.entry.Mode.dir

\* C15: AddMutated succeeds only if an entry exists at the key and no
\* earlier AddMutated call for that key succeeded: at most one AddMutated
\* call per path succeeds.
C15_AddMutatedOnce ==
    [][(call'.op = "AddMutated" /\ call'.n = call.n + 1 /\ err' = NoErr) =>
        /\ HasPrefix(call'.entry.Path, report.Root)
        /\ CallKey(report, call') \in DOMAIN report.Entries
        /\ CallKey(report, call') \notin call.mutated
       ]_vars

\* A second AddMutated call for a path that was mutated is refused.
C15_Witness ==
    /\ call.op = "AddMutated"
    /\ err.kind = "mutatedbefore"
    /\ CallKey(report, call) \in call.mutated
    /\ report.Entries[CallKey(report, call)].Mutated

----------------------------------------------------------------------------
(* Manifest *)

\* C19: in every written manifest the rows after the header are in
\* ascending lexicographic order of their JSON lines, whatever the order in
\* which generateManifest added the package, slice, path and content rows.
C19_RowsSorted ==
    phase = "written" =>
        \A i \in 1..Len(manifest.rows), j \in 1..Len(manifest.rows) :
            i < j => ~LexLess(manifest.rows[j], manifest.rows[i])

\* A manifest written from a report with a directory and a file in it and
\* a manifest path: rows of the four kinds, and a path row (of the file)
\* that was added before a content row (of the manifest).
C19_Witness ==
    /\ phase = "written"
    /\ Cardinality(DOMAIN report.Entries) >= 2
    /\ \E e \in DOMAIN report.Entries : Cardinality(report.Entries[e].Slices) = 2
    /\ \A kind \in {"package", "slice", "path", "content"} :
        \E i \in 1..Len(manifest.rows) :
            HasPrefix(manifest.rows[i],
                      Text("{") \o JsonMember("kind", JsonString(Text(kind))))
    /\ Len(manifest.rows) >= 10

\* C20 as stated: the count of the header line equals the number of rows
\* that follow the header line.
C20_CountIsRowsAfterHeader ==
    phase = "written" => manifest.header.count = Len(manifest.rows)

\* C20, amended: the count of the header line is the number of rows that
\* follow the header line plus one; the header line counts itself.
C20_CountIncludesHeader ==
    phase = "written" => manifest.header.count = Len(manifest.rows) + 1

\* A written manifest with rows after the header.
C20_Witness ==
    /\ phase = "written"
    /\ Len(manifest.rows) >= 7
    /\ manifest.header.count = Len(manifest.rows) + 1
    /\ report.Entries # EmptyMap

----------------------------------------------------------------------------
(* Frame of the Report calls *)

\* C29: a call of Add or AddMutated changes no entry other than the one at
\* the root-relative key of the call and leaves the root alone; a call that
\* returns an error leaves the whole report unchanged; a successful
\* AddMutated changes only Mutated, FinalHash and Size of its entry.
C29_ReportFrame ==
    [][(call'.n = call.n + 1) =>
        LET key == CallKey(report, call')
        IN  /\ report'.Root = report.Root
            /\ DOMAIN report.Entries \subseteq DOMAIN report'.Entries
            /\ DOMAIN report'.Entries \subseteq DOMAIN report.Entries \cup {key}
            /\ \A k \in DOMAIN report.Entries \ {key} :
                  report'.Entries[k] = report.Entries[k]
            /\ err' # NoErr => report' = report
            /\ (call'.op = "AddMutated" /\ err' = NoErr) =>
                  /\ key \in DOMAIN report.Entries
                  /\ \A f \in {"Path", "Mode", "Hash", "Link", "Slices"} :
                        report'.Entries[key][f] = report.Entries[key][f]
                  /\ report'.Entries[key].Mutated
                  /\ report'.Entries[key].FinalHash = call'.entry.Hash
                  /\ report'.Entries[key].Size = call'.entry.Size
       ]_vars

\* AddMutated succeeded on the file of a report that also holds the
\* directory; hash and size of the mutated content differ from the entry's.
C29_Witness ==
    /\ call.op = "AddMutated"
    /\ err = NoErr
    /\ Cardinality(DOMAIN report.Entries) >= 2
    /\ LET e == report.Entries[CallKey(report, call)]
       IN  /\ e.Mutated
           /\ e.FinalHash # e.Hash
           /\ e.Size = 2

----------------------------------------------------------------------------
(* Mutated entries in the manifest *)

\* The line holds the bytes sub.
Contains(line, sub) ==
    \E i \in 0..(Len(line) - Len(sub)) : SubSeq(line, i + 1, i + Len(sub)) = sub

\* The path rows of a written manifest for the path of a report key.
PathRowsOf(m, key) ==
    {i \in 1..Len(m.rows) :
        HasPrefix(m.rows[i],
                  Text("{") \o JsonMember("kind", JsonString(Text("path")))
                  \o Text(",") \o JsonMember("path", JsonString(PathText(key)))
                  \o Text(","))}

\* C27: for every report entry on which AddMutated succeeded (with a hash
\* of the final content), the path row of the written manifest carries
\* final_sha256 equal to the entry's FinalHash.
C27_FinalHashInPathRow ==
    phase = "written" =>
        \A key \in DOMAIN report.Entries :
            (report.Entries[key].Mutated /\ report.Entries[key].FinalHash # "") =>
                /\ PathRowsOf(manifest, key) # {}
                /\ \A i \in PathRowsOf(manifest, key) :
                      Contains(manifest.rows[i],
                               JsonMember("final_sha256",
                                   JsonString(Text(report.Entries[key].FinalHash))))

----------------------------------------------------------------------------
(* Runs of generateManifest on the same inputs *)

\* The serialized rows handed to the writer in one run.
LinesOf(dbw) == {Marshal(dbw[i]) : i \in 1..Len(dbw)}

\* C23: every run of generateManifest on the inputs the manifest was written
\* from (every order in which the maps are ranged over) adds the same number
\* of rows with the same serialized text, and the slice names of every path
\* row are in ascending order.
C23_RowsDeterministic ==
    phase = "written" =>
        \A dbw \in generateManifest(ManifestOpts(release, report)) :
            /\ Len(dbw) = Len(manifest.rows)
            /\ LinesOf(dbw) = {manifest.rows[i] : i \in 1..Len(manifest.rows)}
            /\ \A i \in 1..Len(dbw) :
                  dbw[i].Kind = "path" =>
                      \A j \in 1..Len(dbw[i].Slices), k \in 1..Len(dbw[i].Slices) :
                          j < k => LexLess(dbw[i].Slices[j], dbw[i].Slices[k])

\* A manifest written from a report that two slices share an entry of, next
\* to another entry: the runs differ in the order of the rows they add.
C23_Witness ==
    /\ phase = "written"
    /\ \E key \in DOMAIN report.Entries :
          report.Entries[key].Slices = ReportSlices
    /\ Cardinality(generateManifest(ManifestOpts(release, report))) >= 4
    /\ DOMAIN ManifestOpts(release, report).ManifestSlices # {}

----------------------------------------------------------------------------
(* Runs of validate and ResolveConflict on the same input *)

\* C24: for a fixed release every run of Release.validate returns the same
\* result (the same error, naming the same slices), and so does every run
\* of ResolveConflict on a fixed conflict: the result does not depend on the
\* order in which the maps are ranged over.
C24_SameResultEveryRun ==
    /\ phase = "validated" => \A o \in validate(release) : o.err = err
    /\ phase = "resolved" => \A o \in ResolveConflict(conflict) : o.err = err

----------------------------------------------------------------------------
(* validate against ResolveConflict *)

\* The release declares no path other than path.
OnlyPath(r, path) ==
    \A p \in DOMAIN r.Packages : \A n \in DOMAIN r.Packages[p].Slices :
        DOMAIN r.Packages[p].Slices[n].Contents \subseteq {path}

\* The rank validate gave pkg on path; 0 when it gave none.
RankOf(prios, path, pkg) ==
    IF path \in DOMAIN prios /\ pkg \in DOMAIN prios[path]
    THEN prios[path][pkg] ELSE 0

\* C28: for the declarations of one path, validate accepts the release
\* exactly when ResolveConflict accepts the conflict made of them, and when
\* both accept, package u ranks strictly below package v for validate exactly
\* when it does for ResolveConflict.
C28_SameVerdictAndOrder ==
    (phase = "resolved" /\ OnlyPath(release, conflict.Path)) =>
        \A v \in validate(release) :
            /\ (v.err = NoErr) <=> (err = NoErr)
            /\ (v.err = NoErr /\ err = NoErr) =>
                  \A p \in DOMAIN resolution, q \in DOMAIN resolution :
                      (resolution[p] < resolution[q]) <=>
                          (RankOf(v.pathPriorities, conflict.Path, p)
                              < RankOf(v.pathPriorities, conflict.Path, q))


----------------------------------------------------------------------------
(* Termination of visit and findCycle *)

\* The packages of seq are pairwise distinct.
NoRepeat(seq) == \A i \in 1..Len(seq) : \A j \in 1..Len(seq) : i # j => seq[i] # seq[j]

Walking == walk.pc \in {"visit", "findCycle"}

\* C30: on every finite release each call of preferGraph.visit terminates
\* after visiting each package at most once, cycles and self-loops of the
\* 'prefer' relation included, and findCycle terminates whenever visit calls
\* it: no package is put twice in tempVisited during one call, the cycle
\* findCycle collects has no package twice, and every call that has started
\* returns.
C30_VisitTerminates ==
    /\ [](/\ NoRepeat(walk.visits)
          /\ Len(walk.visits) <= Cardinality(DOMAIN release.Packages)
          /\ NoRepeat(walk.cycle)
          /\ Len(walk.cycle) <= Len(walk.visits))
    /\ Walking ~> (walk.pc = "returned")

\* A call of visit that walked a cycle of two packages or more, had findCycle
\* collect it and returned the error naming it.
C30_Witness ==
    /\ walk.pc = "returned"
    /\ walk.out.kind = "cycle"
    /\ Len(walk.cycle) >= 2
    /\ Len(walk.visits) = Len(walk.cycle) + 1


----------------------------------------------------------------------------
(* The prefix returned by hasConflict *)

\* The positions of the slashes of p; an absolute path has as many segments.
Slashes(p) == {i \in 1..Len(p) : p[i] = "/"}

\* The first segment of the absolute path p: from after the leading slash up
\* to the next slash or the end.
FirstSegment(p) ==
    LET later == Slashes(p) \ {1}
        stop == IF later = {} THEN Len(p) + 1
                ELSE CHOOSE i \in later : \A j \in later : i <= j
    IN  SubSeq(p, 2, stop - 1)

HasStars(s) == \E i \in 1..(Len(s) - 1) : s[i] = "*" /\ s[i + 1] = "*"

\* The segment cut right after its first "**".
CutAfterStars(s) ==
    IF HasStars(s)
    THEN SubSeq(s, 1, 1 + CHOOSE i \in 1..(Len(s) - 1) :
                        /\ s[i] = "*" /\ s[i + 1] = "*"
                        /\ \A j \in 1..(i - 1) : ~(s[j] = "*" /\ s[j + 1] = "*"))
    ELSE s

\* C26: on two absolute paths of two segments or more, hasConflict(p, q) is
\* "/" followed by the first segment of p when the two first segments are
\* equal or glob-match, and empty otherwise; when one of the paths has a
\* single segment the result is non-empty only if one of the first segments
\* contains "**" and the two, cut right after the "**", are equal or
\* glob-match, and it is then "/" followed by the cut first segment of p.
C26_Prefix ==
    overlap.done =>
        LET fp == FirstSegment(overlap.p)
            fq == FirstSegment(overlap.q)
        IN  IF Cardinality(Slashes(overlap.p)) >= 2 /\ Cardinality(Slashes(overlap.q)) >= 2
            THEN overlap.prefix =
                    (IF fp = fq \/ GlobMatch(fp, fq) THEN <<"/">> \o fp ELSE <<>>)
            ELSE overlap.prefix # <<>> =>
                    /\ HasStars(fp) \/ HasStars(fq)
                    /\ \/ CutAfterStars(fp) = CutAfterStars(fq)
                       \/ GlobMatch(CutAfterStars(fp), CutAfterStars(fq))
                    /\ overlap.prefix = <<"/">> \o CutAfterStars(fp)

\* "/d*/f" against "/dr/**": the first directories differ and glob-match.
C26_Witness ==
    /\ overlap.done
    /\ overlap.p = <<"/", "d", "*", "/", "f">>
    /\ overlap.q = <<"/", "d", "r", "/", "*", "*">>
    /\ overlap.prefix = <<"/", "d", "*">>


----------------------------------------------------------------------------
(* The manifests written by a cut *)

\* The "generate: manifest" paths declared by the selected slices, and the
\* selected slices that declare one of them.
ManifestPathsOf(slices) ==
    {path \in UNION {DOMAIN slices[i].Contents : i \in 1..Len(slices)} :
        \E i \in 1..Len(slices) :
            /\ path \in DOMAIN slices[i].Contents
            /\ slices[i].Contents[path].Generate = "manifest"}

DeclaringSlices(slices, path) ==
    {<<slices[i].Package, slices[i].Name>> :
        i \in {j \in 1..Len(slices) :
                  /\ path \in DOMAIN slices[j].Contents
                  /\ slices[j].Contents[path].Generate = "manifest"}}

\* The file of the manifest generated for path, under the target directory.
ManifestFile(path) == RootDir \o Tail(TrimStars(path)) \o <<"chisel.db">>

\* The lines of data that are the path row, or a content row, of the path
\* with the text self.
PathLines(data, self) ==
    {i \in 1..Len(data) :
        HasPrefix(data[i],
                  Text("{") \o JsonMember("kind", JsonString(Text("path")))
                  \o Text(",") \o JsonMember("path", JsonString(self)) \o Text(","))}

ContentLines(data, slice, self) ==
    {i \in 1..Len(data) :
        data[i] = Text("{") \o JsonMember("kind", JsonString(Text("content")))
                  \o Text(",") \o JsonMember("slice", JsonString(slice))
                  \o Text(",") \o JsonMember("path", JsonString(self)) \o Text("}")}

\* C21: when the selected slices declare "generate: manifest" paths and
\* generateDB and WriteDB have returned without error, the manifests at all
\* of these locations are whole and have the same content, and the content
\* holds, for every location, one path row and one content row for each
\* slice that declares the location.
C21_ManifestsIdentical ==
    (phase = "done" /\ disk.by = "generateDB") =>
        \A path \in ManifestPathsOf(selection) :
            /\ ManifestFile(path) \in DOMAIN disk.files
            /\ disk.files[ManifestFile(path)].complete
            /\ \A other \in ManifestPathsOf(selection) :
                /\ ManifestFile(other) \in DOMAIN disk.files
                /\ disk.files[ManifestFile(other)].data = disk.files[ManifestFile(path)].data
                /\ LET data == disk.files[ManifestFile(path)].data
                       self == PathText(Tail(TrimStars(other)) \o <<"chisel.db">>)
                   IN  /\ Cardinality(PathLines(data, Text("/") \o self)) = 1
                       /\ \A key \in DeclaringSlices(selection, other) :
                            Cardinality(ContentLines(data, SliceText(key),
                                                     Text("/") \o self)) = 1

\* C22: when cmdCut.Execute has returned without error, a chisel.db is in
\* the directory of every "generate: manifest" path declared by a selected
\* slice and nowhere else; no manifest is written when no selected slice
\* declares one.
C22_ManifestInEveryDir ==
    (phase = "done" /\ disk.by = "Execute") =>
        DOMAIN disk.files = {ManifestFile(path) : path \in ManifestPathsOf(selection)}

\* C25: when the write of a manifest has failed or was interrupted after the
\* target was opened, no file that is not a whole manifest is left at the
\* final path.
C25_NoPartialFile ==
    phase = "failed" =>
        \A f \in DOMAIN disk.files : f[Len(f)] = dbFile => disk.files[f].complete

====
